---- MODULE Spec2Model ----
(***************************************************************************)
(* Title auto-numbering of google-forms-generator, the numbering unit in   *)
(* src/src/delete-forms.ts lines 63-118: ALREADY_NUMBERED_RE, numberTitle, *)
(* numberSections, numberFlatQuestions and the private numberQuestions.    *)
(*                                                                         *)
(* A string is a sequence of characters; a character is a one-character    *)
(* TLA+ string, except the two non-ASCII characters the source uses, which *)
(* are the tokens EmDash (U+2014) and NBSP (U+00A0).                        *)
(***************************************************************************)
EXTENDS Integers, Sequences, FiniteSets, TLC

VARIABLES
    call,        \* the exported operation the caller invokes
    pc,          \* "ready": arguments bound; "done": returned; "again": re-run returned
    prefix,      \* numberTitle: argument prefix
    title,       \* numberTitle / ALREADY_NUMBERED_RE.test: argument title
    sections,    \* numberSections: argument sections
    questions,   \* numberFlatQuestions: argument questions
    matched,     \* value returned by ALREADY_NUMBERED_RE.test
    result,      \* value returned by numberTitle
    numbered,    \* value returned by numberSections
    flat,        \* value returned by numberFlatQuestions
    renumbered   \* value returned by numberSections on the rebuilt sections

numberingVars == <<call, pc, prefix, title, sections, questions,
                   matched, result, numbered, flat, renumbered>>

\* One call of numberSections or numberFlatQuestions, callback by callback
VARIABLES
    loopPc,            \* "idle", "sections" (in sections.map), "questions"
                       \* (in questions.map), "returned"
    secDone,           \* section callbacks that have returned
    curSectionNum,     \* sectionNum of the running section callback
    curSectionTitle,   \* sectionTitle of the running section callback
    curSectionIndex,   \* the argument sectionIndex of numberQuestions
    qDone,             \* question callbacks that have returned in this map
    curQuestionIndex,  \* the closure variable questionIndex
    outQuestions,      \* the strings questions.map has collected so far
    sectionNums,       \* history: the values sectionNum has taken
    counters           \* history: per numberQuestions call, the values of
                       \* questionIndex used for its non-title questions

loopVars == <<loopPc, secDone, curSectionNum, curSectionTitle, curSectionIndex, qDone,
              curQuestionIndex, outQuestions, sectionNums, counters>>

\* the variables the calls of the numbering functions leave alone
VARIABLES
    lastIndex,         \* ALREADY_NUMBERED_RE.lastIndex, the position state of
                       \* the one RegExp object all calls share
    history            \* the calls made so far: operation, arguments, value

callsVars == <<lastIndex, history>>

VARIABLES
    runs,              \* generate processes started so far
    genPc,             \* where the generate process stands (its pending await)
    optFormId,         \* options.formId is set
    optForce,          \* options.force
    optSaveResponses,  \* options.saveResponses
    credentialsFile,   \* credentials.json exists
    tokenFile,         \* token.json: NoFile or the token stored in it
    clientToken,       \* credentials set on the process's OAuth2 client
    issued,            \* tokens the authorization server has issued
    prompts,           \* authorization-code prompts shown, all runs
    tokenWrites,       \* writes of token.json, all runs
    remoteResponses,   \* responses the remote form holds
    remoteUpdates,     \* batchUpdate requests the remote form has applied
    responseCount,     \* const responseCount: NotYet or the number fetched
    csvRows,           \* rows of the CSV file written by this run
    trace,             \* what this run has printed and called, in order
    exitCode           \* exit code once genPc = "exited"

runVars == <<genPc, optFormId, optForce, optSaveResponses, clientToken,
             responseCount, csvRows, trace, exitCode>>

diskVars == <<credentialsFile, tokenFile, prompts, tokenWrites>>

remoteVars == <<issued, remoteResponses, remoteUpdates>>

genVars == <<runs, runVars, diskVars, remoteVars>>

VARIABLES
    cScript,           \* the script that uses the generator, or "direct" for
                       \* a caller of the exported class
    cPlan,             \* the methods the script still has to call, in order
    cForms,            \* this.forms is set
    cDrive,            \* this.drive is set
    cAuthDone,         \* history: an authenticate() has returned
    cCredentialsFile,  \* credentials.json exists
    cTokenFile,        \* token.json exists
    cMethod,           \* the method that is running, "none" between calls
    cPending,          \* requests the running method has yet to send
    cInFlight,         \* requests sent and not yet answered
    cSent,             \* history: number of requests sent
    cLog,              \* history: the calls made, each with the error it
                       \* threw before its first await, if any
    cError             \* the error the last call ended with, "none" if none

clientVars == <<cScript, cPlan, cForms, cDrive, cAuthDone, cCredentialsFile,
                cTokenFile, cMethod, cPending, cInFlight, cSent, cLog, cError>>

VARIABLES
    bOp,               \* the operation under way: "updateForm", "createForm"
                       \* or "buildChoiceOptions"
    bPc,               \* where it stands: "ready", the request it awaits,
                       \* "returned" or "threw"
    bConfig,           \* argument config
    bOptions,          \* buildChoiceOptions: argument options
    bApiOptions,       \* buildChoiceOptions: value returned
    bFetched,          \* data of the first answer: updateForm, the items of
                       \* the form; createForm, the form id
    bRequests,         \* the requests of the batchUpdate sent last
    bSent,             \* history: the requests sent, by name, in order
    bRemote            \* the remote form: info, settings, items

batchVars == <<bOp, bPc, bConfig, bOptions, bApiOptions, bFetched, bRequests,
               bSent, bRemote>>

laterVars == <<clientVars, batchVars>>

extraVars == <<loopVars, callsVars, genVars, laterVars>>

vars == <<numberingVars, extraVars>>

(***************************************************************************)
(* Characters                                                              *)
(***************************************************************************)
EmDash == "u2014"
NBSP == "u00A0"

\* \d of a JavaScript regular expression: [0-9]
DigitChars == <<"0", "1", "2", "3", "4", "5", "6", "7", "8", "9">>
IsDigit(c) == \E i \in 1..Len(DigitChars) : DigitChars[i] = c

\* \s of a JavaScript regular expression (the members the model's strings use)
WhiteSpace == {" ", "\t", "\n", NBSP}
IsSpace(c) == c \in WhiteSpace

\* The i flag without the u flag: two characters match when their
\* upper-case mappings are equal.
LowerCase == <<"a", "b", "c", "d", "e", "f", "g", "h", "i", "j", "k", "l", "m",
               "n", "o", "p", "q", "r", "s", "t", "u", "v", "w", "x", "y", "z">>
UpperCase == <<"A", "B", "C", "D", "E", "F", "G", "H", "I", "J", "K", "L", "M",
               "N", "O", "P", "Q", "R", "S", "T", "U", "V", "W", "X", "Y", "Z">>
\* the pattern without its i flag
Canonicalize_CaseSensitive(c) == c

Canonicalize(c) ==
    IF \E i \in 1..Len(LowerCase) : LowerCase[i] = c
    THEN UpperCase[CHOOSE i \in 1..Len(LowerCase) : LowerCase[i] = c]
    ELSE c

(***************************************************************************)
(* ALREADY_NUMBERED_RE = /^(Section\s+\d|Q\s+\d|\d+[\.\)]\s)/i              *)
(* The pattern has no g or y flag, so test() always starts at index 0 and  *)
(* keeps nothing between calls.  ^ without the m flag is the start of the  *)
(* string: every alternative is matched from position 1.                   *)
(***************************************************************************)
KwSection == <<"S", "e", "c", "t", "i", "o", "n">>
KwQ == <<"Q">>

\* the literal kw at the start of t, letter case ignored
MatchLiteral(t, kw) ==
    /\ Len(t) >= Len(kw)
    /\ \A i \in 1..Len(kw) : Canonicalize(t[i]) = Canonicalize(kw[i])

\* a greedy quantifier: the position after the longest run of whitespace
\* (resp. digits) that starts at pos
RECURSIVE SpaceRun(_, _)
SpaceRun(t, pos) ==
    IF pos <= Len(t) /\ IsSpace(t[pos]) THEN SpaceRun(t, pos + 1) ELSE pos

RECURSIVE DigitRun(_, _)
DigitRun(t, pos) ==
    IF pos <= Len(t) /\ IsDigit(t[pos]) THEN DigitRun(t, pos + 1) ELSE pos

\* \s+\d from position from: the run is taken greedily up to e and given
\* back one character at a time until \d matches at the position after it
RECURSIVE SpacesThenDigit(_, _, _)
SpacesThenDigit(t, from, e) ==
    IF e <= from THEN FALSE
    ELSE IF e <= Len(t) /\ IsDigit(t[e]) THEN TRUE
    ELSE SpacesThenDigit(t, from, e - 1)

\* \d+[\.\)]\s from position from, with the same backtracking
RECURSIVE DigitsThenMark(_, _, _)
DigitsThenMark(t, from, e) ==
    IF e <= from THEN FALSE
    ELSE IF e + 1 <= Len(t) /\ t[e] \in {".", ")"} /\ IsSpace(t[e + 1]) THEN TRUE
    ELSE DigitsThenMark(t, from, e - 1)

\* Section\s+\d and Q\s+\d
KeywordBranch(t, kw) ==
    /\ MatchLiteral(t, kw)
    /\ SpacesThenDigit(t, Len(kw) + 1, SpaceRun(t, Len(kw) + 1))

\* \d+[\.\)]\s
OrdinalBranch(t) == DigitsThenMark(t, 1, DigitRun(t, 1))

\* the pattern without its ^ anchor: a match may start anywhere
ALREADY_NUMBERED_RE_Unanchored(t) ==
    \E j \in 1..(Len(t) + 1) :
        LET u == SubSeq(t, j, Len(t))
        IN  \/ KeywordBranch(u, KwSection)
            \/ KeywordBranch(u, KwQ)
            \/ OrdinalBranch(u)

\* ALREADY_NUMBERED_RE.test(t)
ALREADY_NUMBERED_RE(t) ==
    \/ KeywordBranch(t, KwSection)
    \/ KeywordBranch(t, KwQ)
    \/ OrdinalBranch(t)

(***************************************************************************)
(* numberTitle                                                             *)
(***************************************************************************)
\* skips only a title that already carries this very prefix
numberTitle_SamePrefixOnly(p, t) ==
    IF ALREADY_NUMBERED_RE(t) /\ Len(t) >= Len(p) /\ SubSeq(t, 1, Len(p)) = p
    THEN t
    ELSE p \o t

\* trims the title before prefixing it
RECURSIVE TrimStart(_)
TrimStart(t) == IF t # <<>> /\ IsSpace(Head(t)) THEN TrimStart(Tail(t)) ELSE t
numberTitle_Trimmed(p, t) ==
    IF ALREADY_NUMBERED_RE(t) THEN t ELSE p \o TrimStart(t)

numberTitle(p, t) == IF ALREADY_NUMBERED_RE(t) THEN t ELSE p \o t

(***************************************************************************)
(* Template literals: a number is formatted in decimal                     *)
(***************************************************************************)
RECURSIVE NumberToString(_)
NumberToString(n) ==
    IF n < Len(DigitChars) THEN <<DigitChars[n + 1]>>
    ELSE NumberToString(n \div Len(DigitChars)) \o <<DigitChars[(n % Len(DigitChars)) + 1]>>

Separator == <<" ", EmDash, " ">>

\* `Section ${sectionNum} — `
SectionPrefix(sectionNum) ==
    KwSection \o <<" ">> \o NumberToString(sectionNum) \o Separator

(***************************************************************************)
(* numberQuestions(questions, sectionIndex?)                               *)
(* The optional sectionIndex is <<>> when undefined and <<i>> otherwise.   *)
(***************************************************************************)
Undefined == <<>>

\* sectionIndex != null ? `Q ${sectionIndex}.${questionIndex} — `
\*                      : `Q ${questionIndex} — `
\* `Q${...}` without the blank after Q
QuestionPrefix_NoSpace(sectionIndex, questionIndex) ==
    IF sectionIndex # Undefined
    THEN KwQ \o NumberToString(sectionIndex[1]) \o <<".">>
             \o NumberToString(questionIndex) \o Separator
    ELSE KwQ \o NumberToString(questionIndex) \o Separator

QuestionPrefix(sectionIndex, questionIndex) ==
    IF sectionIndex # Undefined
    THEN KwQ \o <<" ">> \o NumberToString(sectionIndex[1]) \o <<".">>
             \o NumberToString(questionIndex) \o Separator
    ELSE KwQ \o <<" ">> \o NumberToString(questionIndex) \o Separator

\* questions.map(callback) from position p on, the closure variable
\* questionIndex carried from one callback invocation to the next
\* title items filtered out of the result
RECURSIVE MapQuestions_DropTitles(_, _, _, _)
MapQuestions_DropTitles(qs, sectionIndex, p, questionIndex) ==
    IF p > Len(qs) THEN <<>>
    ELSE IF qs[p].type = "title"
         THEN MapQuestions_DropTitles(qs, sectionIndex, p + 1, questionIndex)
         ELSE <<numberTitle(QuestionPrefix(sectionIndex, questionIndex), qs[p].title)>>
                  \o MapQuestions_DropTitles(qs, sectionIndex, p + 1, questionIndex + 1)

\* questionIndex++ moved before the title test: title items use up a number
RECURSIVE MapQuestions_CountTitles(_, _, _, _)
MapQuestions_CountTitles(qs, sectionIndex, p, questionIndex) ==
    IF p > Len(qs) THEN <<>>
    ELSE IF qs[p].type = "title"
         THEN <<qs[p].title>>
                  \o MapQuestions_CountTitles(qs, sectionIndex, p + 1, questionIndex + 1)
         ELSE <<numberTitle(QuestionPrefix(sectionIndex, questionIndex), qs[p].title)>>
                  \o MapQuestions_CountTitles(qs, sectionIndex, p + 1, questionIndex + 1)

\* questionIndex++ only where the prefix was applied: an already-numbered
\* question uses up no number
RECURSIVE MapQuestions_CountOnlyPrefixed(_, _, _, _)
MapQuestions_CountOnlyPrefixed(qs, sectionIndex, p, questionIndex) ==
    IF p > Len(qs) THEN <<>>
    ELSE IF qs[p].type = "title"
         THEN <<qs[p].title>>
                  \o MapQuestions_CountOnlyPrefixed(qs, sectionIndex, p + 1, questionIndex)
         ELSE <<numberTitle(QuestionPrefix(sectionIndex, questionIndex), qs[p].title)>>
                  \o MapQuestions_CountOnlyPrefixed(
                         qs, sectionIndex, p + 1,
                         IF ALREADY_NUMBERED_RE(qs[p].title)
                         THEN questionIndex ELSE questionIndex + 1)

RECURSIVE MapQuestions(_, _, _, _)
MapQuestions(qs, sectionIndex, p, questionIndex) ==
    IF p > Len(qs) THEN <<>>
    ELSE IF qs[p].type = "title"
         THEN <<qs[p].title>> \o MapQuestions(qs, sectionIndex, p + 1, questionIndex)
         ELSE <<numberTitle(QuestionPrefix(sectionIndex, questionIndex), qs[p].title)>>
                  \o MapQuestions(qs, sectionIndex, p + 1, questionIndex + 1)

numberQuestions(qs, sectionIndex) == MapQuestions(qs, sectionIndex, 1, 1)

(***************************************************************************)
(* numberSections, numberFlatQuestions                                     *)
(***************************************************************************)
\* sectionNum = i, the 0-based index
numberSections_ZeroBased(ss) ==
    [k \in 1..Len(ss) |->
        LET i == k - 1
            sectionNum == i
        IN  [sectionTitle |-> numberTitle(SectionPrefix(sectionNum), ss[k].title),
             questions |-> numberQuestions(ss[k].questions, <<sectionNum>>)]]

\* questionIndex declared outside the sections loop: it is not reset
RECURSIVE NonTitleCount(_)
NonTitleCount(qs) ==
    IF qs = <<>> THEN 0
    ELSE (IF Head(qs).type = "title" THEN 0 ELSE 1) + NonTitleCount(Tail(qs))
RECURSIVE NonTitleBefore(_, _)
NonTitleBefore(ss, k) ==
    IF k <= 1 THEN 0
    ELSE NonTitleBefore(ss, k - 1) + NonTitleCount(ss[k - 1].questions)
numberSections_SharedCounter(ss) ==
    [k \in 1..Len(ss) |->
        LET i == k - 1
            sectionNum == i + 1
        IN  [sectionTitle |-> numberTitle(SectionPrefix(sectionNum), ss[k].title),
             questions |-> MapQuestions(ss[k].questions, <<sectionNum>>, 1,
                                        1 + NonTitleBefore(ss, k))]]

\* a section whose title is already numbered is taken as numbered throughout
numberSections_SkipNumberedSection(ss) ==
    [k \in 1..Len(ss) |->
        LET i == k - 1
            sectionNum == i + 1
        IN  [sectionTitle |-> numberTitle(SectionPrefix(sectionNum), ss[k].title),
             questions |->
                 IF ALREADY_NUMBERED_RE(ss[k].title)
                 THEN [p \in 1..Len(ss[k].questions) |-> ss[k].questions[p].title]
                 ELSE numberQuestions(ss[k].questions, <<sectionNum>>)]]

\* sections.map((section, i) => ...): k is the 1-based position, i the
\* 0-based array index the callback receives
numberSections(ss) ==
    [k \in 1..Len(ss) |->
        LET i == k - 1
            sectionNum == i + 1
        IN  [sectionTitle |-> numberTitle(SectionPrefix(sectionNum), ss[k].title),
             questions |-> numberQuestions(ss[k].questions, <<sectionNum>>)]]

\* a section index passed where none is meant
numberFlatQuestions_WithSection(qs) == numberQuestions(qs, <<1>>)

numberFlatQuestions(qs) == numberQuestions(qs, Undefined)

(***************************************************************************)
(* Arguments of the calls                                                  *)
(***************************************************************************)
MaxLen == 3        \* length of the titles enumerated over TitleChars
MaxSections == 2   \* sections in one numberSections call
MaxQuestions == 3  \* questions in one call (over all its sections)
MaxRepeat == 10    \* length of the uniform long lists (two-digit numerals)

\* all strings over the characters S of length at most n
Strs(S, n) == UNION {[1..k -> S] : k \in 0..n}

\* titles written in the repository's tests
\* numberTitle test: skips titles starting with "Section N"
TSectionOld ==
    <<"S", "e", "c", "t", "i", "o", "n", " ", "2", " ", EmDash, " ", "O",
      "l", "d">>

\* numberTitle test: skips titles starting with "1."
TFirstQuestion ==
    <<"1", ".", " ", "F", "i", "r", "s", "t", " ", "q", "u", "e", "s", "t",
      "i", "o", "n">>

\* numberTitle test: skips already-numbered titles
TExisting ==
    <<"Q", " ", "3", ".", "2", " ", EmDash, " ", "E", "x", "i", "s", "t",
      "i", "n", "g">>

\* numberTitle test: prepends prefix to a plain title
TYourName ==
    <<"Y", "o", "u", "r", " ", "n", "a", "m", "e">>

\* ALREADY_NUMBERED_RE test: does not match mid-text numbers
THowMany ==
    <<"H", "o", "w", " ", "m", "a", "n", "y", " ", "Q", " ", "1", " ", "i",
      "t", "e", "m", "s">>

\* ALREADY_NUMBERED_RE test: matches "2) Some title"
TSomeTitle ==
    <<"2", ")", " ", "S", "o", "m", "e", " ", "t", "i", "t", "l", "e">>

\* numberSections test: a plain section title
TTeam ==
    <<"T", "e", "a", "m">>

\* numberSections test: the title of a title-type item
TSubHeader ==
    <<"S", "u", "b", "-", "h", "e", "a", "d", "e", "r">>

\* strings the detector must tell apart: keywords in both letter cases,
\* two kinds of whitespace, a digit, both ordinal marks and a plain letter
TitleChars == {"Q", "q", " ", "\t", "1", ".", ")", "x"}

\* "Section" in several letter cases, cut short, extended, and shifted
SectionHeads ==
    { KwSection,
      <<"S", "E", "C", "T", "I", "O", "N">>,
      <<"s", "e", "c", "T", "i", "O", "n">>,
      <<"S", "e", "c", "t", "i", "o">>,
      <<"S", "e", "c", "t", "i", "o", "n", "s">>,
      <<" ", "S", "e", "c", "t", "i", "o", "n">> }
TailChars == {" ", NBSP, "2", "x"}

\* whitespace runs and digit runs longer than one character, and the
\* titles the claims quote as not numbered
LongerTitles ==
    { <<"Q", " ", "\t", " ", "1", "0">>,
      <<"Q", " ", "1", ".", "1", "0", " ", EmDash, " ", "x">>,
      <<"1", "2", "0", ".", " ", "x">>,
      <<"1", "2", ")", "\n", "x">>,
      <<"1", "2", ".", "x">>,
      <<"1", "2", " ", ".", " ", "x">>,
      <<" ", "Q", " ", "1", " ", "x">>,
      <<"x", "\n", "Q", " ", "1">>,
      <<"Q", "1", " ", "x">>,
      <<"S", "e", "c", "t", "i", "o", "n", "1">>,
      <<"1", ".", "F", "o", "o">>,
      <<"1", " ", "F", "o", "o">> }

Titles ==
    Strs(TitleChars, MaxLen)
        \cup {h \o tl : h \in SectionHeads, tl \in Strs(TailChars, MaxLen)}
        \cup LongerTitles
        \cup {TSectionOld, TFirstQuestion, TExisting, TYourName, THowMany,
              TSomeTitle, TTeam, TSubHeader}

Prefixes ==
    {<<>>, SectionPrefix(1), QuestionPrefix(Undefined, 1), QuestionPrefix(<<2>>, 3)}

\* question types: only equality with "title" is ever tested
QuestionTypes == {"title", "text", "Title"}
QuestionTitles == {<<>>, TYourName, TExisting, TFirstQuestion}
QuestionPool == [type : QuestionTypes, title : QuestionTitles]

\* questions and titles of the sections of a numberSections call
SectionQuestionPool ==
    { [type |-> "title", title |-> TSubHeader],
      [type |-> "text", title |-> TYourName],
      [type |-> "text", title |-> TExisting],
      [type |-> "paragraph", title |-> <<>>] }
SectionTitles == {TTeam, TSectionOld}

\* at most n sections holding at most m questions together: a shape gives
\* the number of questions of each section, and a flat list of questions is
\* cut into sections according to it
RECURSIVE Sum(_)
Sum(s) == IF s = <<>> THEN 0 ELSE Head(s) + Sum(Tail(s))

Shapes(n, m) == {s \in Strs(0..m, n) : Sum(s) <= m}

CutAt(qf, shape, k) ==
    SubSeq(qf, Sum(SubSeq(shape, 1, k - 1)) + 1, Sum(SubSeq(shape, 1, k)))

SectionList(shape, tf, qf) ==
    [k \in 1..Len(shape) |-> [title |-> tf[k], questions |-> CutAt(qf, shape, k)]]

\* one question repeated, up to MaxRepeat times
LongQuestionLists ==
    {[p \in 1..n |-> q] : q \in SectionQuestionPool, n \in (MaxQuestions + 1)..MaxRepeat}

\* one single-question section repeated, up to MaxRepeat times
LongSectionLists ==
    {[k \in 1..n |-> [title |-> t, questions |-> <<q>>]] :
        t \in SectionTitles, q \in SectionQuestionPool,
        n \in (MaxSections + 1)..MaxRepeat}

LongSectionInputs ==
    {<<[title |-> t, questions |-> qs]>> :
        t \in SectionTitles, qs \in LongQuestionLists}
        \cup LongSectionLists

QuestionInputs == Strs(QuestionPool, MaxQuestions) \cup LongQuestionLists

(***************************************************************************)
(* The calls                                                               *)
(***************************************************************************)
\* the sections a caller builds from a numberSections result: every title
\* replaced by the computed one, the question types kept
Rebuild(ss, out) ==
    [k \in 1..Len(ss) |->
        [title |-> out[k].sectionTitle,
         questions |-> [p \in 1..Len(ss[k].questions) |->
                           [type |-> ss[k].questions[p].type,
                            title |-> out[k].questions[p]]]]]

\* no call is being stepped through
LoopIdle ==
    /\ loopPc = "idle"
    /\ secDone = 0
    /\ curSectionNum = 0
    /\ curSectionTitle = <<>>
    /\ curSectionIndex = <<>>
    /\ qDone = 0
    /\ curQuestionIndex = 0
    /\ outQuestions = <<>>
    /\ sectionNums = <<>>
    /\ counters = <<>>

NoFile == <<>>

NotYet == <<>>

CallsIdle ==
    /\ lastIndex = 0
    /\ history = <<>>

GenIdle ==
    /\ runs = 0
    /\ genPc = "idle"
    /\ optFormId = FALSE /\ optForce = FALSE /\ optSaveResponses = FALSE
    /\ credentialsFile = TRUE
    /\ tokenFile = NoFile
    /\ clientToken = NoFile
    /\ issued = 0 /\ prompts = 0 /\ tokenWrites = 0
    /\ remoteResponses = 0 /\ remoteUpdates = 0
    /\ responseCount = NotYet
    /\ csvRows = 0
    /\ trace = <<>>
    /\ exitCode = 0

ClientIdle ==
    /\ cScript = "none"
    /\ cPlan = <<>>
    /\ cForms = FALSE /\ cDrive = FALSE /\ cAuthDone = FALSE
    /\ cCredentialsFile = TRUE /\ cTokenFile = FALSE
    /\ cMethod = "none"
    /\ cPending = <<>> /\ cInFlight = <<>>
    /\ cSent = 0
    /\ cLog = <<>>
    /\ cError = "none"

BatchIdle ==
    /\ bOp = "none"
    /\ bPc = "ready"
    /\ bConfig = <<>>
    /\ bOptions = <<>> /\ bApiOptions = <<>>
    /\ bFetched = <<>>
    /\ bRequests = <<>>
    /\ bSent = <<>>
    /\ bRemote = <<>>

LaterIdle == ClientIdle /\ BatchIdle

ExtraIdle == LoopIdle /\ CallsIdle /\ GenIdle /\ LaterIdle

Init ==
    /\ ExtraIdle
    /\ pc = "ready"
    /\ matched = FALSE
    /\ result = <<>>
    /\ numbered = <<>>
    /\ flat = <<>>
    /\ renumbered = <<>>
    /\ \/ /\ call = "test"
          /\ title \in Titles
          /\ prefix = <<>> /\ sections = <<>> /\ questions = <<>>
       \/ /\ call = "numberTitle"
          /\ prefix \in Prefixes
          /\ title \in Titles
          /\ sections = <<>> /\ questions = <<>>
       \/ /\ call = "numberSections"
          /\ \/ \E shape \in Shapes(MaxSections, MaxQuestions) :
                  \E tf \in [1..Len(shape) -> SectionTitles] :
                      \E qf \in [1..Sum(shape) -> SectionQuestionPool] :
                          sections = SectionList(shape, tf, qf)
             \/ sections \in LongSectionInputs
          /\ prefix = <<>> /\ title = <<>> /\ questions = <<>>
       \/ /\ call = "numberFlatQuestions"
          /\ questions \in QuestionInputs
          /\ prefix = <<>> /\ title = <<>> /\ sections = <<>>

\* ALREADY_NUMBERED_RE.test(title)
Test ==
    /\ pc = "ready" /\ call = "test"
    /\ matched' = ALREADY_NUMBERED_RE(title)
    /\ pc' = "done"
    /\ UNCHANGED <<call, prefix, title, sections, questions,
                   result, numbered, flat, renumbered,
                   extraVars>>

\* numberTitle(prefix, title)
NumberTitle ==
    /\ pc = "ready" /\ call = "numberTitle"
    /\ result' = numberTitle(prefix, title)
    /\ pc' = "done"
    /\ UNCHANGED <<call, prefix, title, sections, questions,
                   matched, numbered, flat, renumbered,
                   extraVars>>

\* numberSections writing each numbered title back into its argument
NumberSections_InPlace ==
    /\ pc = "ready" /\ call = "numberSections"
    /\ numbered' = numberSections(sections)
    /\ sections' = Rebuild(sections, numbered')
    /\ pc' = "done"
    /\ UNCHANGED <<call, prefix, title, questions,
                   matched, result, flat, renumbered,
                   extraVars>>

\* numberSections(sections)
NumberSections ==
    /\ pc = "ready" /\ call = "numberSections"
    /\ numbered' = numberSections(sections)
    /\ pc' = "done"
    /\ UNCHANGED <<call, prefix, title, sections, questions,
                   matched, result, flat, renumbered,
                   extraVars>>

\* numberFlatQuestions throwing on an empty list
NumberFlatQuestions_ThrowsOnEmpty ==
    /\ pc = "ready" /\ call = "numberFlatQuestions"
    /\ flat' = IF questions = <<>> THEN flat ELSE numberFlatQuestions(questions)
    /\ pc' = IF questions = <<>> THEN "threw" ELSE "done"
    /\ UNCHANGED <<call, prefix, title, sections, questions,
                   matched, result, numbered, renumbered,
                   extraVars>>

\* numberFlatQuestions(questions)
NumberFlatQuestions ==
    /\ pc = "ready" /\ call = "numberFlatQuestions"
    /\ flat' = numberFlatQuestions(questions)
    /\ pc' = "done"
    /\ UNCHANGED <<call, prefix, title, sections, questions,
                   matched, result, numbered, renumbered,
                   extraVars>>

\* numberSections on the sections rebuilt from its own result
NumberSectionsAgain ==
    /\ pc = "done" /\ call = "numberSections"
    /\ renumbered' = numberSections(Rebuild(sections, numbered))
    /\ pc' = "again"
    /\ UNCHANGED <<call, prefix, title, sections, questions,
                   matched, result, numbered, flat,
                   extraVars>>

Next ==
    \/ Test
    \/ NumberTitle
    \/ NumberSections
    \/ NumberFlatQuestions
    \/ NumberSectionsAgain

Spec == Init /\ [][Next]_vars

(***************************************************************************)
(* The same calls, one callback of Array.prototype.map at a time           *)
(***************************************************************************)
\* const sectionNum = i + 1, i the index map passes to the callback
SectionNumOf(idx) == idx + 1

\* questionIndex after the callback has handled q: a title item returns
\* before questionIndex++
\* questionIndex++ only after a prefix was applied
NextQuestionIndex_OnlyPrefixed(q, qi) ==
    IF q.type = "title" \/ ALREADY_NUMBERED_RE(q.title) THEN qi ELSE qi + 1

NextQuestionIndex(q, qi) == IF q.type = "title" THEN qi ELSE qi + 1

\* the array questions.map is running over
CurQuestions ==
    IF call = "numberSections" THEN sections[secDone + 1].questions ELSE questions

\* numberSections(sections) is entered: sections.map starts
CallNumberSections ==
    /\ pc = "ready" /\ call = "numberSections" /\ loopPc = "idle"
    /\ loopPc' = "sections"
    /\ numbered' = <<>>
    /\ UNCHANGED <<call, pc, prefix, title, sections, questions,
                   matched, result, flat, renumbered>>
    /\ UNCHANGED <<secDone, curSectionNum, curSectionTitle, curSectionIndex, qDone,
                   curQuestionIndex, outQuestions, sectionNums, counters>>
    /\ UNCHANGED <<callsVars, genVars, laterVars>>

\* the section callback up to its call of numberQuestions, which sets
\* questionIndex = 1 and starts questions.map
EnterSection ==
    /\ loopPc = "sections" /\ secDone < Len(sections)
    /\ curSectionNum' = SectionNumOf(secDone)
    /\ curSectionTitle' =
           numberTitle(SectionPrefix(curSectionNum'), sections[secDone + 1].title)
    /\ curSectionIndex' = <<curSectionNum'>>
    /\ curQuestionIndex' = 1
    /\ qDone' = 0
    /\ outQuestions' = <<>>
    /\ sectionNums' = Append(sectionNums, curSectionNum')
    /\ counters' = Append(counters, <<>>)
    /\ loopPc' = "questions"
    /\ UNCHANGED <<numberingVars, secDone>>
    /\ UNCHANGED <<callsVars, genVars, laterVars>>

\* numberFlatQuestions(questions) is entered: numberQuestions(questions,
\* undefined) sets questionIndex = 1 and starts questions.map
CallNumberFlatQuestions ==
    /\ pc = "ready" /\ call = "numberFlatQuestions" /\ loopPc = "idle"
    /\ curSectionIndex' = Undefined
    /\ curQuestionIndex' = 1
    /\ qDone' = 0
    /\ outQuestions' = <<>>
    /\ counters' = <<<<>>>>
    /\ loopPc' = "questions"
    /\ UNCHANGED <<numberingVars, secDone, curSectionNum, curSectionTitle, sectionNums>>
    /\ UNCHANGED <<callsVars, genVars, laterVars>>

\* one invocation of the callback of questions.map
QuestionCallback ==
    /\ loopPc = "questions" /\ qDone < Len(CurQuestions)
    /\ LET q == CurQuestions[qDone + 1]
       IN  /\ outQuestions' =
                  Append(outQuestions,
                         IF q.type = "title"
                         THEN q.title
                         ELSE numberTitle(
                                  QuestionPrefix(curSectionIndex, curQuestionIndex),
                                  q.title))
           /\ counters' =
                  IF q.type = "title"
                  THEN counters
                  ELSE [counters EXCEPT ![Len(counters)] = Append(@, curQuestionIndex)]
           /\ curQuestionIndex' = NextQuestionIndex(q, curQuestionIndex)
    /\ qDone' = qDone + 1
    /\ UNCHANGED <<numberingVars, loopPc, secDone, curSectionNum, curSectionTitle,
                   curSectionIndex, sectionNums>>
    /\ UNCHANGED <<callsVars, genVars, laterVars>>

\* questions.map is over: the section callback returns { sectionTitle, questions }
LeaveSection ==
    /\ loopPc = "questions" /\ call = "numberSections"
    /\ qDone = Len(CurQuestions)
    /\ numbered' = Append(numbered, [sectionTitle |-> curSectionTitle,
                                     questions |-> outQuestions])
    /\ secDone' = secDone + 1
    /\ loopPc' = "sections"
    /\ UNCHANGED <<call, pc, prefix, title, sections, questions,
                   matched, result, flat, renumbered>>
    /\ UNCHANGED <<curSectionNum, curSectionTitle, curSectionIndex, qDone,
                   curQuestionIndex, outQuestions, sectionNums, counters>>
    /\ UNCHANGED <<callsVars, genVars, laterVars>>

\* sections.map is over: numberSections returns
ReturnSections ==
    /\ loopPc = "sections" /\ secDone = Len(sections)
    /\ loopPc' = "returned"
    /\ pc' = "done"
    /\ UNCHANGED <<call, prefix, title, sections, questions,
                   matched, result, numbered, flat, renumbered>>
    /\ UNCHANGED <<secDone, curSectionNum, curSectionTitle, curSectionIndex, qDone,
                   curQuestionIndex, outQuestions, sectionNums, counters>>
    /\ UNCHANGED <<callsVars, genVars, laterVars>>

\* questions.map is over: numberFlatQuestions returns its result
ReturnFlat ==
    /\ loopPc = "questions" /\ call = "numberFlatQuestions"
    /\ qDone = Len(questions)
    /\ flat' = outQuestions
    /\ loopPc' = "returned"
    /\ pc' = "done"
    /\ UNCHANGED <<call, prefix, title, sections, questions,
                   matched, result, numbered, renumbered>>
    /\ UNCHANGED <<secDone, curSectionNum, curSectionTitle, curSectionIndex, qDone,
                   curQuestionIndex, outQuestions, sectionNums, counters>>
    /\ UNCHANGED <<callsVars, genVars, laterVars>>

LoopInit == Init /\ call \in {"numberSections", "numberFlatQuestions"}

LoopNext ==
    \/ CallNumberSections
    \/ EnterSection
    \/ CallNumberFlatQuestions
    \/ QuestionCallback
    \/ LeaveSection
    \/ ReturnSections
    \/ ReturnFlat

SpecLoop == LoopInit /\ [][LoopNext]_vars

\* stepping through the callbacks gives what the whole calls give
LoopAgreesWithCalls ==
    loopPc = "returned"
        => /\ call = "numberSections" => numbered = numberSections(sections)
           /\ call = "numberFlatQuestions" => flat = numberFlatQuestions(questions)

(***************************************************************************)
(* Calls one after another on the one shared RegExp object                 *)
(***************************************************************************)
MaxCalls == 3

\* the pattern with the g flag: test resumes at lastIndex, where ^ cannot
\* match, and a match leaves lastIndex behind the matched text
RegExpTest_Global(t, li) ==
    IF li > 0
    THEN [matched |-> FALSE, lastIndex |-> 0]
    ELSE [matched |-> ALREADY_NUMBERED_RE(t),
          lastIndex |-> IF ALREADY_NUMBERED_RE(t) THEN 3 ELSE 0]

\* ALREADY_NUMBERED_RE.test(t) with the object's lastIndex at li: the flags
\* are "i" only, so matching starts at 0 and lastIndex is neither read nor
\* written
RegExpTest(t, li) == [matched |-> ALREADY_NUMBERED_RE(t), lastIndex |-> li]

\* numberTitle with the RegExp object's state passed through
numberTitleAt(p, t, li) ==
    LET r == RegExpTest(t, li)
    IN  [value |-> IF r.matched THEN t ELSE p \o t, lastIndex |-> r.lastIndex]

RECURSIVE MapQuestionsAt(_, _, _, _)
\* the questions.map of numberQuestions with the RegExp object's state
MapQuestionsAt(qs, sectionIndex, questionIndex, li) ==
    IF qs = <<>>
    THEN [value |-> <<>>, lastIndex |-> li]
    ELSE LET q == Head(qs)
         IN  IF q.type = "title"
             THEN LET rest == MapQuestionsAt(Tail(qs), sectionIndex,
                                             questionIndex, li)
                  IN  [value |-> <<q.title>> \o rest.value,
                       lastIndex |-> rest.lastIndex]
             ELSE LET r == numberTitleAt(
                               QuestionPrefix(sectionIndex, questionIndex),
                               q.title, li)
                      rest == MapQuestionsAt(Tail(qs), sectionIndex,
                                             questionIndex + 1, r.lastIndex)
                  IN  [value |-> <<r.value>> \o rest.value,
                       lastIndex |-> rest.lastIndex]

RECURSIVE MapSectionsAt(_, _, _)
\* the sections.map of numberSections, idx sections already mapped, with the
\* RegExp object's state
MapSectionsAt(secs, idx, li) ==
    IF secs = <<>>
    THEN [value |-> <<>>, lastIndex |-> li]
    ELSE LET sectionNum == idx + 1
             t == numberTitleAt(SectionPrefix(sectionNum), Head(secs).title, li)
             qs == MapQuestionsAt(Head(secs).questions, <<sectionNum>>, 1,
                                  t.lastIndex)
             rest == MapSectionsAt(Tail(secs), idx + 1, qs.lastIndex)
         IN  [value |-> <<[sectionTitle |-> t.value, questions |-> qs.value]>>
                            \o rest.value,
              lastIndex |-> rest.lastIndex]

\* arguments of the calls
CallTitles == {TExisting, TYourName}

CallPrefixes == {QuestionPrefix(Undefined, 1)}

CallQuestions ==
    { << [type |-> "text", title |-> TExisting],
         [type |-> "text", title |-> TYourName] >>,
      << [type |-> "title", title |-> TSubHeader],
         [type |-> "text", title |-> TYourName] >> }

CallSections ==
    { << [title |-> TSectionOld,
          questions |-> <<[type |-> "text", title |-> TExisting]>>] >>,
      << [title |-> TTeam,
          questions |-> <<[type |-> "text", title |-> TYourName]>>] >> }

NumberingIdle ==
    /\ call = "none" /\ pc = "ready"
    /\ prefix = <<>> /\ title = <<>> /\ sections = <<>> /\ questions = <<>>
    /\ matched = FALSE /\ result = <<>> /\ numbered = <<>> /\ flat = <<>>
    /\ renumbered = <<>>

CallsInit == NumberingIdle /\ ExtraIdle

\* one more call of numberTitle
AnotherNumberTitle ==
    /\ Len(history) < MaxCalls
    /\ \E p \in CallPrefixes, t \in CallTitles :
          LET r == numberTitleAt(p, t, lastIndex)
          IN  /\ lastIndex' = r.lastIndex
              /\ history' = Append(history, [op |-> "numberTitle",
                                             args |-> <<p, t>>,
                                             value |-> r.value])
    /\ UNCHANGED <<numberingVars, loopVars, genVars, laterVars>>

\* one more call of numberSections
AnotherNumberSections ==
    /\ Len(history) < MaxCalls
    /\ \E secs \in CallSections :
          LET r == MapSectionsAt(secs, 0, lastIndex)
          IN  /\ lastIndex' = r.lastIndex
              /\ history' = Append(history, [op |-> "numberSections",
                                             args |-> <<secs>>,
                                             value |-> r.value])
    /\ UNCHANGED <<numberingVars, loopVars, genVars, laterVars>>

\* one more call of numberFlatQuestions
AnotherNumberFlatQuestions ==
    /\ Len(history) < MaxCalls
    /\ \E qs \in CallQuestions :
          LET r == MapQuestionsAt(qs, Undefined, 1, lastIndex)
          IN  /\ lastIndex' = r.lastIndex
              /\ history' = Append(history, [op |-> "numberFlatQuestions",
                                             args |-> <<qs>>,
                                             value |-> r.value])
    /\ UNCHANGED <<numberingVars, loopVars, genVars, laterVars>>

CallsNext ==
    \/ AnotherNumberTitle
    \/ AnotherNumberSections
    \/ AnotherNumberFlatQuestions

SpecCalls == CallsInit /\ [][CallsNext]_vars

(***************************************************************************)
(* npm run generate: main, yamlToForm, authenticate (yaml-to-form.ts,      *)
(* index.ts), run after run on the same directory and remote form          *)
(***************************************************************************)
MaxRuns == 2        \* generate processes started

MaxResponses == 2   \* responses the remote form can hold

\* a saved token is never looked for
NeedsNewToken_Always(file) == TRUE

\* !fs.existsSync(TOKEN_PATH)
NeedsNewToken(file) == file = NoFile

\* the export is made whenever it was asked for
Exports_WheneverAsked(n, sav) == sav

\* responseCount > 0 and options.saveResponses
Exports(n, sav) == n > 0 /\ sav

\* responseCount > 0 and !options.force && !options.saveResponses
AbortsWithoutExport(n, frc, sav) == n > 0 /\ ~frc /\ ~sav

\* saved responses are enough to go on
AbortsAfterSave_Never(n, frc) == FALSE

\* responseCount > 0 and !options.force
AbortsAfterSave(n, frc) == n > 0 /\ ~frc

\* the statements of yamlToForm after the export, or after the warning when
\* there is no export: what is printed and called, where the process stands
\* and its exit code; tr is the output so far, n is responseCount
AfterExport(tr, n, frc, sav) ==
    IF AbortsWithoutExport(n, frc, sav)
    THEN [trace |-> Append(tr, "abort"), genPc |-> "exited", exitCode |-> 1]
    ELSE IF AbortsAfterSave(n, frc)
    THEN [trace |-> Append(tr, "abortSaved"), genPc |-> "exited", exitCode |-> 1]
    ELSE [trace |-> Append(tr, "updateForm"), genPc |-> "updateGetForm",
          exitCode |-> 0]

GenInit ==
    /\ NumberingIdle /\ LoopIdle /\ CallsIdle /\ LaterIdle
    /\ runs = 0
    /\ genPc = "idle"
    /\ optFormId = FALSE /\ optForce = FALSE /\ optSaveResponses = FALSE
    /\ credentialsFile \in BOOLEAN
    /\ issued \in {0, 1}
    /\ tokenFile = IF issued = 0 THEN NoFile ELSE <<issued>>
    /\ clientToken = NoFile
    /\ prompts = 0 /\ tokenWrites = 0
    /\ remoteResponses \in 0..MaxResponses
    /\ remoteUpdates = 0
    /\ responseCount = NotYet
    /\ csvRows = 0
    /\ trace = <<>>
    /\ exitCode = 0

\* the catch of main: console.error, process.exit(1)
Caught ==
    /\ trace' = Append(trace, "error")
    /\ genPc' = "exited"
    /\ exitCode' = 1

\* main: the arguments are parsed and yamlToForm reads and converts the file,
\* up to the call of authenticate
Main ==
    /\ genPc \in {"idle", "exited"}
    /\ runs < MaxRuns
    /\ runs' = runs + 1
    /\ \E formId \in BOOLEAN, frc \in BOOLEAN, sav \in BOOLEAN, yamlOk \in BOOLEAN :
          /\ optFormId' = formId
          /\ optForce' = frc
          /\ optSaveResponses' = sav
          /\ IF yamlOk
             THEN /\ genPc' = "authenticate"
                  /\ trace' = <<>>
                  /\ exitCode' = 0
             ELSE /\ genPc' = "exited"
                  /\ trace' = <<"error">>
                  /\ exitCode' = 1
    /\ clientToken' = NoFile
    /\ responseCount' = NotYet
    /\ csvRows' = 0
    /\ UNCHANGED <<diskVars, remoteVars>>
    /\ UNCHANGED <<numberingVars, loopVars, callsVars, laterVars>>

\* authenticate, up to its first await: the saved token is used, or
\* getNewToken prints the URL and asks for the code
Authenticate ==
    /\ genPc = "authenticate"
    /\ IF ~credentialsFile
       THEN /\ Caught
            /\ UNCHANGED <<clientToken, prompts>>
       ELSE IF NeedsNewToken(tokenFile)
       THEN /\ prompts' = prompts + 1
            /\ genPc' = "prompting"
            /\ UNCHANGED <<clientToken, trace, exitCode>>
       ELSE /\ clientToken' = tokenFile
            /\ genPc' = "authenticated"
            /\ UNCHANGED <<prompts, trace, exitCode>>
    /\ UNCHANGED <<runs, optFormId, optForce, optSaveResponses, responseCount,
                   csvRows, credentialsFile, tokenFile, tokenWrites, remoteVars>>
    /\ UNCHANGED <<numberingVars, loopVars, callsVars, laterVars>>

\* the user answers rl.question: getToken(code) is requested
EnterCode ==
    /\ genPc = "prompting"
    /\ genPc' = "exchanging"
    /\ UNCHANGED <<runs, optFormId, optForce, optSaveResponses, clientToken,
                   responseCount, csvRows, trace, exitCode, diskVars, remoteVars>>
    /\ UNCHANGED <<numberingVars, loopVars, callsVars, laterVars>>

\* getToken returns tokens, which are set and written to token.json, or throws
GetTokenReturns ==
    /\ genPc = "exchanging"
    /\ \E ok \in BOOLEAN :
          IF ok
          THEN /\ issued' = issued + 1
               /\ clientToken' = <<issued'>>
               /\ tokenFile' = <<issued'>>
               /\ tokenWrites' = tokenWrites + 1
               /\ genPc' = "authenticated"
               /\ UNCHANGED <<trace, exitCode>>
          ELSE /\ Caught
               /\ UNCHANGED <<issued, clientToken, tokenFile, tokenWrites>>
    /\ UNCHANGED <<runs, optFormId, optForce, optSaveResponses, responseCount,
                   csvRows, credentialsFile, prompts, remoteResponses,
                   remoteUpdates>>
    /\ UNCHANGED <<numberingVars, loopVars, callsVars, laterVars>>

\* authenticate has returned: getResponseCount requests the responses, or
\* createForm requests the new form
AfterAuthenticate ==
    /\ genPc = "authenticated"
    /\ IF optFormId
       THEN /\ genPc' = "getResponseCount"
            /\ UNCHANGED trace
       ELSE /\ genPc' = "createForm"
            /\ trace' = Append(trace, "createForm")
    /\ UNCHANGED <<runs, optFormId, optForce, optSaveResponses, clientToken,
                   responseCount, csvRows, exitCode, diskVars, remoteVars>>
    /\ UNCHANGED <<numberingVars, loopVars, callsVars, laterVars>>

\* getResponseCount returns: the warning, then the export is called, or the
\* run aborts, or updateForm is called
GetResponseCountReturns ==
    /\ genPc = "getResponseCount"
    /\ \E ok \in BOOLEAN :
          IF ok
          THEN LET n == remoteResponses
                   warned == IF n > 0 THEN Append(trace, "warning") ELSE trace
                   then == AfterExport(warned, n, optForce, optSaveResponses)
               IN  /\ responseCount' = <<n>>
                   /\ IF Exports(n, optSaveResponses)
                      THEN /\ trace' = Append(warned, "exportResponsesCsv")
                           /\ genPc' = "exportGetForm"
                           /\ UNCHANGED exitCode
                      ELSE /\ trace' = then.trace
                           /\ genPc' = then.genPc
                           /\ exitCode' = then.exitCode
          ELSE /\ Caught
               /\ UNCHANGED responseCount
    /\ UNCHANGED <<runs, optFormId, optForce, optSaveResponses, clientToken,
                   csvRows, diskVars, remoteVars>>
    /\ UNCHANGED <<numberingVars, loopVars, callsVars, laterVars>>

\* exportResponsesCsv: getForm returns, getResponses is requested
ExportGetFormReturns ==
    /\ genPc = "exportGetForm"
    /\ \E ok \in BOOLEAN :
          IF ok
          THEN /\ genPc' = "exportGetResponses"
               /\ UNCHANGED <<trace, exitCode>>
          ELSE Caught
    /\ UNCHANGED <<runs, optFormId, optForce, optSaveResponses, clientToken,
                   responseCount, csvRows, diskVars, remoteVars>>
    /\ UNCHANGED <<numberingVars, loopVars, callsVars, laterVars>>

\* exportResponsesCsv: getResponses returns, the CSV file is written unless
\* there is no response, the export returns; then the run aborts or
\* updateForm is called
ExportGetResponsesReturns ==
    /\ genPc = "exportGetResponses"
    /\ \E ok \in BOOLEAN :
          IF ok
          THEN LET then == AfterExport(Append(trace, "exportReturned"),
                                       responseCount[1], optForce,
                                       optSaveResponses)
               IN  /\ csvRows' = remoteResponses
                   /\ trace' = then.trace
                   /\ genPc' = then.genPc
                   /\ exitCode' = then.exitCode
          ELSE /\ Caught
               /\ UNCHANGED csvRows
    /\ UNCHANGED <<runs, optFormId, optForce, optSaveResponses, clientToken,
                   responseCount, diskVars, remoteVars>>
    /\ UNCHANGED <<numberingVars, loopVars, callsVars, laterVars>>

\* updateForm: getForm returns, the batchUpdate is requested
UpdateGetFormReturns ==
    /\ genPc = "updateGetForm"
    /\ \E ok \in BOOLEAN :
          IF ok
          THEN /\ genPc' = "batchUpdate"
               /\ trace' = Append(trace, "batchUpdate")
               /\ UNCHANGED exitCode
          ELSE Caught
    /\ UNCHANGED <<runs, optFormId, optForce, optSaveResponses, clientToken,
                   responseCount, csvRows, diskVars, remoteVars>>
    /\ UNCHANGED <<numberingVars, loopVars, callsVars, laterVars>>

\* updateForm: the batchUpdate returns, main prints the URLs and ends
BatchUpdateReturns ==
    /\ genPc = "batchUpdate"
    /\ \E ok \in BOOLEAN :
          IF ok
          THEN /\ remoteUpdates' = remoteUpdates + 1
               /\ genPc' = "exited"
               /\ exitCode' = 0
               /\ UNCHANGED trace
          ELSE /\ Caught
               /\ UNCHANGED remoteUpdates
    /\ UNCHANGED <<runs, optFormId, optForce, optSaveResponses, clientToken,
                   responseCount, csvRows, diskVars, issued, remoteResponses>>
    /\ UNCHANGED <<numberingVars, loopVars, callsVars, laterVars>>

\* createForm: forms.create returns; the batchUpdate is requested when there
\* are requests, else main prints the URLs and ends
CreateReturns ==
    /\ genPc = "createForm"
    /\ \E ok \in BOOLEAN, hasRequests \in BOOLEAN :
          IF ok
          THEN /\ genPc' = IF hasRequests THEN "createBatchUpdate" ELSE "exited"
               /\ exitCode' = 0
               /\ UNCHANGED trace
          ELSE Caught
    /\ UNCHANGED <<runs, optFormId, optForce, optSaveResponses, clientToken,
                   responseCount, csvRows, diskVars, remoteVars>>
    /\ UNCHANGED <<numberingVars, loopVars, callsVars, laterVars>>

\* createForm: the batchUpdate returns, main prints the URLs and ends
CreateBatchUpdateReturns ==
    /\ genPc = "createBatchUpdate"
    /\ \E ok \in BOOLEAN :
          IF ok
          THEN /\ genPc' = "exited"
               /\ exitCode' = 0
               /\ UNCHANGED trace
          ELSE Caught
    /\ UNCHANGED <<runs, optFormId, optForce, optSaveResponses, clientToken,
                   responseCount, csvRows, diskVars, remoteVars>>
    /\ UNCHANGED <<numberingVars, loopVars, callsVars, laterVars>>

\* somebody submits the form
Respond ==
    /\ remoteResponses < MaxResponses
    /\ remoteResponses' = remoteResponses + 1
    /\ UNCHANGED <<runs, runVars, diskVars, issued, remoteUpdates>>
    /\ UNCHANGED <<numberingVars, loopVars, callsVars, laterVars>>

\* the owner deletes all responses
DeleteResponses ==
    /\ remoteResponses > 0
    /\ remoteResponses' = 0
    /\ UNCHANGED <<runs, runVars, diskVars, issued, remoteUpdates>>
    /\ UNCHANGED <<numberingVars, loopVars, callsVars, laterVars>>

GenNext ==
    \/ Main
    \/ Authenticate
    \/ EnterCode
    \/ GetTokenReturns
    \/ AfterAuthenticate
    \/ GetResponseCountReturns
    \/ ExportGetFormReturns
    \/ ExportGetResponsesReturns
    \/ UpdateGetFormReturns
    \/ BatchUpdateReturns
    \/ CreateReturns
    \/ CreateBatchUpdateReturns
    \/ Respond
    \/ DeleteResponses

SpecGenerate == GenInit /\ [][GenNext]_vars

(***************************************************************************)
(* GoogleFormsGenerator (index.ts) as its callers use it: the scripts      *)
(* generate, delete-forms, list-forms, validate, and direct calls          *)
(***************************************************************************)
MaxOps == 3       \* calls a direct caller makes

MaxDeletes == 2   \* forms picked for deletion in delete-forms

NotAuthenticated == "Not authenticated. Call authenticate() first."

CredentialsNotFound == "credentials.json not found"

FormsMethods ==
    {"createForm", "updateForm", "getForm", "getResponses", "getResponseCount",
     "exportResponsesCsv", "deleteQuestion"}

DriveMethods == {"listForms", "deleteForm"}

Methods == {"authenticate"} \cup FormsMethods \cup DriveMethods

\* only the methods on this.forms are guarded
Unauthenticated_FormsOnly(m, f, d) == m \in FormsMethods /\ ~f

\* the guard a method reaches before its first request: if (!this.forms), or
\* if (!this.drive) in listForms and deleteForm; getResponseCount and
\* exportResponsesCsv reach the guard of getResponses and getForm
Unauthenticated(m, f, d) == IF m \in DriveMethods THEN ~d ELSE ~f

\* the requests a method sends, in order, when nothing stops it
Requests(m) ==
    CASE m = "createForm" -> <<"forms.create", "forms.batchUpdate">>
      [] m = "updateForm" -> <<"forms.get", "forms.batchUpdate">>
      [] m = "getForm" -> <<"forms.get">>
      [] m = "getResponses" -> <<"forms.responses.list">>
      [] m = "getResponseCount" -> <<"forms.responses.list">>
      [] m = "exportResponsesCsv" -> <<"forms.get", "forms.responses.list">>
      [] m = "deleteQuestion" -> <<"forms.get", "forms.batchUpdate">>
      [] m = "listForms" -> <<"drive.files.list">>
      [] m = "deleteForm" -> <<"drive.files.delete">>

\* all the requests of a method are started together
Issue_AllAtOnce(prog) == Len(prog)

\* every request is awaited: one request is started at a time
Issue(prog) == 1

\* the methods that may end after a request without sending the next one:
\* createForm with no requests to batch, deleteQuestion with an index out of
\* range or an item without id
MayStop == {"createForm", "deleteQuestion"}

RECURSIVE Repeat(_, _)
Repeat(x, n) == IF n = 0 THEN <<>> ELSE <<x>> \o Repeat(x, n - 1)

\* the calls each script makes when no call throws
ScriptPlans ==
    { [script |-> "generate", plan |-> pl] :
        pl \in { <<"authenticate", "createForm">>,
                 <<"authenticate", "getResponseCount">>,
                 <<"authenticate", "getResponseCount", "updateForm">>,
                 <<"authenticate", "getResponseCount", "exportResponsesCsv">>,
                 <<"authenticate", "getResponseCount", "exportResponsesCsv",
                   "updateForm">> } }
    \cup { [script |-> "delete-forms",
            plan |-> <<"authenticate", "listForms">> \o Repeat("deleteForm", n)] :
             n \in 0..MaxDeletes }
    \cup { [script |-> "list-forms", plan |-> <<"authenticate", "listForms">>],
           [script |-> "validate",
            plan |-> <<"authenticate", "getForm", "getResponses">>] }

\* what is left of the plan after method m has ended: an error ends the
\* script, except in the delete loop, which catches it
Advance(m, threw) ==
    IF cScript = "direct" THEN cPlan
    ELSE IF threw /\ ~(cScript = "delete-forms" /\ m = "deleteForm") THEN <<>>
    ELSE Tail(cPlan)

ClientInit ==
    /\ NumberingIdle /\ LoopIdle /\ CallsIdle /\ GenIdle /\ BatchIdle
    /\ \/ cScript = "direct" /\ cPlan = <<>>
       \/ \E sp \in ScriptPlans : cScript = sp.script /\ cPlan = sp.plan
    /\ cForms = FALSE /\ cDrive = FALSE /\ cAuthDone = FALSE
    /\ cCredentialsFile \in BOOLEAN
    /\ cTokenFile \in BOOLEAN
    /\ cMethod = "none"
    /\ cPending = <<>> /\ cInFlight = <<>>
    /\ cSent = 0
    /\ cLog = <<>>
    /\ cError = "none"

\* a method is called and runs up to its first await, or throws before it
Call ==
    /\ cMethod = "none"
    /\ \E m \in Methods :
          /\ IF cScript = "direct"
             THEN Len(cLog) < MaxOps
             ELSE cPlan # <<>> /\ m = Head(cPlan)
          /\ IF m = "authenticate"
             THEN IF ~cCredentialsFile
                  THEN /\ cError' = CredentialsNotFound
                       /\ cPlan' = Advance(m, TRUE)
                       /\ UNCHANGED <<cForms, cDrive, cAuthDone, cMethod, cPending>>
                  ELSE IF cTokenFile
                  THEN /\ cForms' = TRUE /\ cDrive' = TRUE /\ cAuthDone' = TRUE
                       /\ cError' = "none"
                       /\ cPlan' = Advance(m, FALSE)
                       /\ UNCHANGED <<cMethod, cPending>>
                  ELSE /\ cMethod' = m
                       /\ cPending' = <<"oauth2.getToken">>
                       /\ cError' = "none"
                       /\ UNCHANGED <<cPlan, cForms, cDrive, cAuthDone>>
             ELSE /\ cError' = IF Unauthenticated(m, cForms, cDrive)
                               THEN NotAuthenticated ELSE "none"
                  /\ cPlan' = IF Unauthenticated(m, cForms, cDrive)
                              THEN Advance(m, TRUE) ELSE cPlan
                  /\ cMethod' = IF Unauthenticated(m, cForms, cDrive)
                                THEN "none" ELSE m
                  /\ cPending' = IF Unauthenticated(m, cForms, cDrive)
                                 THEN <<>>
                                 ELSE SubSeq(Requests(m), Issue(Requests(m)) + 1,
                                             Len(Requests(m)))
                  /\ UNCHANGED <<cForms, cDrive, cAuthDone>>
          /\ cInFlight' = IF m = "authenticate" \/ Unauthenticated(m, cForms, cDrive)
                          THEN cInFlight
                          ELSE SubSeq(Requests(m), 1, Issue(Requests(m)))
          /\ cSent' = cSent + Len(cInFlight') - Len(cInFlight)
          /\ cLog' = Append(cLog, [method |-> m, error |-> cError'])
    /\ UNCHANGED <<cScript, cCredentialsFile, cTokenFile>>
    /\ UNCHANGED <<numberingVars, loopVars, callsVars, genVars, batchVars>>

\* getNewToken: the user answers rl.question, getToken(code) is requested
AnswerCode ==
    /\ cMethod = "authenticate" /\ cInFlight = <<>> /\ cPending # <<>>
    /\ cInFlight' = <<Head(cPending)>>
    /\ cPending' = Tail(cPending)
    /\ cSent' = cSent + 1
    /\ UNCHANGED <<cScript, cPlan, cForms, cDrive, cAuthDone, cCredentialsFile,
                   cTokenFile, cMethod, cLog, cError>>
    /\ UNCHANGED <<numberingVars, loopVars, callsVars, genVars, batchVars>>

\* the awaited request is rejected: the method throws
RequestFails ==
    /\ cInFlight # <<>>
    /\ cInFlight' = Tail(cInFlight)
    /\ cPending' = <<>>
    /\ cMethod' = "none"
    /\ cError' = "request failed"
    /\ cPlan' = Advance(cMethod, TRUE)
    /\ UNCHANGED <<cScript, cForms, cDrive, cAuthDone, cCredentialsFile,
                   cTokenFile, cSent, cLog>>
    /\ UNCHANGED <<numberingVars, loopVars, callsVars, genVars, batchVars>>

\* the awaited request is answered and the method sends its next request
RequestReturnsNext ==
    /\ cInFlight # <<>> /\ cPending # <<>>
    /\ cInFlight' = Tail(cInFlight) \o SubSeq(cPending, 1, Issue(cPending))
    /\ cPending' = SubSeq(cPending, Issue(cPending) + 1, Len(cPending))
    /\ cSent' = cSent + Issue(cPending)
    /\ UNCHANGED <<cScript, cPlan, cForms, cDrive, cAuthDone, cCredentialsFile,
                   cTokenFile, cMethod, cLog, cError>>
    /\ UNCHANGED <<numberingVars, loopVars, callsVars, genVars, batchVars>>

\* the awaited request is answered and the method ends without another
\* request: createForm returns, deleteQuestion throws
RequestReturnsStop ==
    /\ cInFlight # <<>> /\ cPending # <<>>
    /\ cMethod \in MayStop
    /\ cInFlight' = Tail(cInFlight)
    /\ cPending' = <<>>
    /\ cError' = IF cMethod = "deleteQuestion" THEN "out of range" ELSE "none"
    /\ cPlan' = Advance(cMethod, cMethod = "deleteQuestion")
    /\ cMethod' = "none"
    /\ UNCHANGED <<cScript, cForms, cDrive, cAuthDone, cCredentialsFile,
                   cTokenFile, cSent, cLog>>
    /\ UNCHANGED <<numberingVars, loopVars, callsVars, genVars, batchVars>>

\* the last request of the method is answered: the method returns;
\* authenticate writes token.json and sets this.auth, this.forms, this.drive
RequestReturnsLast ==
    /\ cInFlight # <<>> /\ cPending = <<>>
    /\ cInFlight' = Tail(cInFlight)
    /\ IF cInFlight' = <<>>
       THEN /\ cMethod' = "none"
            /\ cError' = "none"
            /\ cPlan' = Advance(cMethod, FALSE)
            /\ IF cMethod = "authenticate"
               THEN /\ cTokenFile' = TRUE
                    /\ cForms' = TRUE /\ cDrive' = TRUE /\ cAuthDone' = TRUE
               ELSE UNCHANGED <<cTokenFile, cForms, cDrive, cAuthDone>>
       ELSE UNCHANGED <<cMethod, cError, cPlan, cTokenFile, cForms, cDrive,
                        cAuthDone>>
    /\ UNCHANGED <<cScript, cCredentialsFile, cPending, cSent, cLog>>
    /\ UNCHANGED <<numberingVars, loopVars, callsVars, genVars, batchVars>>

ClientNext ==
    \/ Call
    \/ AnswerCode
    \/ RequestFails
    \/ RequestReturnsNext
    \/ RequestReturnsStop
    \/ RequestReturnsLast

SpecClient == ClientInit /\ [][ClientNext]_vars

(***************************************************************************)
(* cleanText, buildChoiceOptions, buildItem, createForm, updateForm        *)
(* (index.ts) and the batchUpdate of the remote form                       *)
(***************************************************************************)
MaxItems == 2     \* items of a configuration

MaxOld == 2       \* items of the form before the update

MaxOptions == 3   \* options of a choice question

LF == "\n"

CR == "\r"

NUL == "u0000"

RECURSIVE ReplaceCRLF(_)
\* .replace(/\r\n/g, '\n')
ReplaceCRLF(t) ==
    IF t = <<>> THEN <<>>
    ELSE IF Len(t) >= 2 /\ t[1] = CR /\ t[2] = LF
    THEN <<LF>> \o ReplaceCRLF(SubSeq(t, 3, Len(t)))
    ELSE <<Head(t)>> \o ReplaceCRLF(Tail(t))

RECURSIVE RunLength(_, _)
\* the number of characters c the text starts with
RunLength(t, c) ==
    IF t # <<>> /\ Head(t) = c THEN 1 + RunLength(Tail(t), c) ELSE 0

RECURSIVE ReplaceRuns(_, _, _)
\* .replace(/cc+/g, by): every run of two or more c becomes by
ReplaceRuns(t, c, by) ==
    IF t = <<>> THEN <<>>
    ELSE IF RunLength(t, c) >= 2
    THEN by \o ReplaceRuns(SubSeq(t, RunLength(t, c) + 1, Len(t)), c, by)
    ELSE <<Head(t)>> \o ReplaceRuns(Tail(t), c, by)

RECURSIVE ReplaceEach(_, _, _)
\* .replace(/c/g, by)
ReplaceEach(t, c, by) ==
    IF t = <<>> THEN <<>>
    ELSE (IF Head(t) = c THEN by ELSE <<Head(t)>>) \o ReplaceEach(Tail(t), c, by)

\* the characters String.prototype.trim removes that the texts can hold
TrimChars == WhiteSpace \cup {CR}

RECURSIVE TrimLeft(_)
TrimLeft(t) ==
    IF t # <<>> /\ Head(t) \in TrimChars THEN TrimLeft(Tail(t)) ELSE t

RECURSIVE TrimRight(_)
TrimRight(t) ==
    IF t # <<>> /\ t[Len(t)] \in TrimChars
    THEN TrimRight(SubSeq(t, 1, Len(t) - 1))
    ELSE t

\* cleanText(text)
cleanText(t) ==
    TrimRight(TrimLeft(
        ReplaceRuns(
            ReplaceEach(
                ReplaceEach(ReplaceRuns(ReplaceCRLF(t), LF, <<NUL>>), LF, <<" ">>),
                NUL, <<LF, LF>>),
            " ", <<" ">>)))

\* options.map(...): a string becomes { value }, an object with isOther
\* becomes { isOther: true }, any other object { value: opt.value }
MapOption(opt) ==
    IF opt.kind = "string" THEN [value |-> opt.value]
    ELSE IF opt.isOther = "true" THEN [isOther |-> TRUE]
    ELSE [value |-> opt.value]

RECURSIVE Filter(_, _)
\* array.filter on the presence of the key isOther
Filter(os, other) ==
    IF os = <<>> THEN <<>>
    ELSE (IF ("isOther" \in DOMAIN Head(os)) = other THEN <<Head(os)>> ELSE <<>>)
             \o Filter(Tail(os), other)

\* the mapped options in the order given
buildChoiceOptions_AsGiven(options) ==
    [k \in 1..Len(options) |-> MapOption(options[k])]

\* buildChoiceOptions(options)
buildChoiceOptions(options) ==
    LET mapped == [k \in 1..Len(options) |-> MapOption(options[k])]
    IN  Filter(mapped, FALSE) \o Filter(mapped, TRUE)

\* an optional property that is not given
NotGiven == [defined |-> FALSE, value |-> <<>>]

Given(v) == [defined |-> TRUE, value |-> v]

\* a string is truthy when it is given and not empty
TruthyText(d) == d.defined /\ d.value # <<>>

\* buildItem(item): only the title and the kind of item are kept
buildItem(item) ==
    [title |-> cleanText(item.title),
     kind |-> IF item.type = "pageBreak" THEN "pageBreakItem"
              ELSE IF item.type = "title" THEN "textItem"
              ELSE "questionItem"]

\* config.questions || config.items || []
ItemsOf_QuestionsFirst(config) ==
    IF config.questions.defined THEN config.questions.value
    ELSE IF config.items.defined THEN config.items.value
    ELSE <<>>

\* config.items || config.questions || []: an array, even empty, is truthy
ItemsOf(config) ==
    IF config.items.defined THEN config.items.value
    ELSE IF config.questions.defined THEN config.questions.value
    ELSE <<>>

\* items.forEach((item, index) => requests.push({ createItem: ... }))
CreateItemRequests(config) ==
    [k \in 1..Len(ItemsOf(config)) |->
        [kind |-> "createItem", item |-> buildItem(ItemsOf(config)[k]),
         index |-> k - 1]]

\* the indices are pushed in ascending order
DeleteIndices_Ascending(n) == [k \in 1..n |-> k - 1]

\* for (let i = existingItems.length - 1; i >= 0; i--): the indices pushed
DeleteIndices(n) == [k \in 1..n |-> n - k]

\* the description is in the mask only when the configuration has one
UpdateMask_GivenOnly(config) ==
    IF TruthyText(config.description) THEN {"title", "description"} ELSE {"title"}

\* updateMask: 'title,description'
UpdateMask(config) == {"title", "description"}

\* updateForm: emailType from config.settings?.collectEmail
UpdateEmailType(collectEmail) ==
    IF collectEmail = "verified" THEN "VERIFIED"
    ELSE IF collectEmail = "input" THEN "RESPONDER_INPUT"
    ELSE "DO_NOT_COLLECT"

\* updateForm: the requests of its batchUpdate, existing the items fetched
UpdateRequests(existing, config) ==
    [k \in 1..Len(existing) |->
        [kind |-> "deleteItem", index |-> DeleteIndices(Len(existing))[k]]]
    \o << [kind |-> "updateFormInfo",
           title |-> cleanText(config.title),
           description |-> IF TruthyText(config.description)
                           THEN cleanText(config.description.value)
                           ELSE <<>>,
           mask |-> UpdateMask(config)] >>
    \o << [kind |-> "updateSettings",
           emailType |-> UpdateEmailType(config.collectEmail)] >>
    \o CreateItemRequests(config)

\* createForm: the requests of its batchUpdate
CreateRequests(config) ==
    (IF TruthyText(config.description)
     THEN << [kind |-> "updateFormInfo",
              title |-> <<>>,
              description |-> cleanText(config.description.value),
              mask |-> {"description"}] >>
     ELSE <<>>)
    \o (IF config.collectEmail \notin {"undefined", "none"}
        THEN << [kind |-> "updateSettings",
                 emailType |-> IF config.collectEmail = "verified"
                               THEN "VERIFIED" ELSE "RESPONDER_INPUT"] >>
        ELSE <<>>)
    \o CreateItemRequests(config)

\* the remote form takes one request of a batch: ok is FALSE when the
\* location of the request is outside the item list
ApplyRequest(form, r) ==
    IF r.kind = "deleteItem"
    THEN IF r.index < Len(form.items)
         THEN [ok |-> TRUE,
               form |-> [form EXCEPT !.items =
                            SubSeq(@, 1, r.index) \o SubSeq(@, r.index + 2, Len(@))]]
         ELSE [ok |-> FALSE, form |-> form]
    ELSE IF r.kind = "createItem"
    THEN IF r.index <= Len(form.items)
         THEN [ok |-> TRUE,
               form |-> [form EXCEPT !.items =
                            SubSeq(@, 1, r.index) \o <<r.item>>
                                \o SubSeq(@, r.index + 1, Len(@))]]
         ELSE [ok |-> FALSE, form |-> form]
    ELSE IF r.kind = "updateFormInfo"
    THEN [ok |-> TRUE,
          form |-> [form EXCEPT
                       !.title = IF "title" \in r.mask THEN r.title ELSE @,
                       !.description = IF "description" \in r.mask
                                       THEN r.description ELSE @]]
    ELSE [ok |-> TRUE, form |-> [form EXCEPT !.emailType = r.emailType]]

RECURSIVE ApplyAll(_, _)
\* the remote form takes the requests of a batch in their order
ApplyAll(form, rs) ==
    IF rs = <<>> THEN [ok |-> TRUE, form |-> form]
    ELSE LET one == ApplyRequest(form, Head(rs))
         IN  IF one.ok THEN ApplyAll(one.form, Tail(rs))
             ELSE [ok |-> FALSE, form |-> form]

\* arguments
BTexts ==
    { <<"F">>, <<" ", "F", LF, "G">>, <<"F", CR, LF, LF, "G", " ", " ", "H">> }

BDescriptions == {NotGiven, Given(<<>>), Given(<<"d", LF, "e", " ">>)}

BCollectEmail == {"undefined", "none", "verified", "input"}

ItemPool ==
    { [type |-> "text", title |-> <<"A">>],
      [type |-> "pageBreak", title |-> <<"B", " ", " ", "b">>],
      [type |-> "title", title |-> <<"C">>] }

RECURSIVE SeqsUpTo(_, _)
\* the sequences over S of length n or less
SeqsUpTo(S, n) ==
    IF n = 0 THEN {<<>>}
    ELSE LET shorter == SeqsUpTo(S, n - 1)
         IN  shorter \cup {Append(q, x) : q \in shorter, x \in S}

BQuestions ==
    {NotGiven, Given(<<>>), Given(<<[type |-> "text", title |-> <<"Q">>]>>)}

OptionPool ==
    { [kind |-> "string", value |-> <<"x">>, isOther |-> "undefined"],
      [kind |-> "object", value |-> <<"x">>, isOther |-> "undefined"],
      [kind |-> "object", value |-> <<"y">>, isOther |-> "false"],
      [kind |-> "object", value |-> <<"z">>, isOther |-> "true"] }

\* the form before updateForm: n items, an owner's title and description
OldForm(n, emailType) ==
    [title |-> <<"o", "l", "d">>,
     description |-> <<"w", "a", "s">>,
     emailType |-> emailType,
     items |-> [k \in 1..n |-> [title |-> <<"o", NumberToString(k)>>,
                                kind |-> "questionItem"]]]

\* the form forms.create makes: the title, nothing else
NewForm(t) ==
    [title |-> t, description |-> <<>>, emailType |-> "DO_NOT_COLLECT",
     items |-> <<>>]

NoConfig ==
    [title |-> <<>>, description |-> NotGiven, collectEmail |-> "undefined",
     items |-> NotGiven, questions |-> NotGiven]

BatchInit ==
    /\ NumberingIdle /\ LoopIdle /\ CallsIdle /\ GenIdle /\ ClientIdle
    /\ bPc = "ready"
    /\ bApiOptions = <<>>
    /\ bFetched = <<>>
    /\ bRequests = <<>>
    /\ bSent = <<>>
    /\ \/ /\ bOp = "buildChoiceOptions"
          /\ bOptions \in SeqsUpTo(OptionPool, MaxOptions)
          /\ bConfig = NoConfig
          /\ bRemote = NewForm(<<>>)
       \/ /\ bOp \in {"createForm", "updateForm"}
          /\ bOptions = <<>>
          /\ \E t \in BTexts, d \in BDescriptions, ce \in BCollectEmail,
                qs \in BQuestions :
                \E its \in {NotGiven} \cup {Given(q) : q \in SeqsUpTo(ItemPool, MaxItems)} :
                   bConfig = [title |-> t, description |-> d, collectEmail |-> ce,
                              items |-> its, questions |-> qs]
          /\ IF bOp = "updateForm"
             THEN \E n \in 0..MaxOld, et \in {"DO_NOT_COLLECT", "VERIFIED"} :
                     bRemote = OldForm(n, et)
             ELSE bRemote = NewForm(<<>>)

\* buildChoiceOptions(options)
BuildChoiceOptions ==
    /\ bOp = "buildChoiceOptions" /\ bPc = "ready"
    /\ bApiOptions' = buildChoiceOptions(bOptions)
    /\ bPc' = "returned"
    /\ UNCHANGED <<bOp, bConfig, bOptions, bFetched, bRequests, bSent, bRemote>>
    /\ UNCHANGED <<numberingVars, loopVars, callsVars, genVars, clientVars>>

\* updateForm(formId, config) up to await this.getForm(formId)
UpdateFormCalled ==
    /\ bOp = "updateForm" /\ bPc = "ready"
    /\ bSent' = Append(bSent, "forms.get")
    /\ bPc' = "forms.get"
    /\ UNCHANGED <<bOp, bConfig, bOptions, bApiOptions, bFetched, bRequests, bRemote>>
    /\ UNCHANGED <<numberingVars, loopVars, callsVars, genVars, clientVars>>

\* updateForm: getForm returns the form, the requests are built and the
\* batchUpdate is sent; or getForm throws
UpdateFormFetched ==
    /\ bOp = "updateForm" /\ bPc = "forms.get"
    /\ \E ok \in BOOLEAN :
          IF ok
          THEN /\ bFetched' = bRemote.items
               /\ bRequests' = UpdateRequests(bFetched', bConfig)
               /\ bSent' = IF Len(bRequests') > 0
                           THEN Append(bSent, "forms.batchUpdate") ELSE bSent
               /\ bPc' = IF Len(bRequests') > 0 THEN "forms.batchUpdate"
                         ELSE "returned"
          ELSE /\ bPc' = "threw"
               /\ UNCHANGED <<bFetched, bRequests, bSent>>
    /\ UNCHANGED <<bOp, bConfig, bOptions, bApiOptions, bRemote>>
    /\ UNCHANGED <<numberingVars, loopVars, callsVars, genVars, clientVars>>

\* createForm(config) up to await this.forms.forms.create
CreateFormCalled ==
    /\ bOp = "createForm" /\ bPc = "ready"
    /\ bSent' = Append(bSent, "forms.create")
    /\ bPc' = "forms.create"
    /\ UNCHANGED <<bOp, bConfig, bOptions, bApiOptions, bFetched, bRequests, bRemote>>
    /\ UNCHANGED <<numberingVars, loopVars, callsVars, genVars, clientVars>>

\* createForm: forms.create answers with a form id, or with none, or
\* rejects; with an id the requests are built and, if there are any, the
\* batchUpdate is sent
CreateFormCreated ==
    /\ bOp = "createForm" /\ bPc = "forms.create"
    /\ \E answer \in {"formId", "none", "rejected"} :
          IF answer = "rejected"
          THEN /\ bPc' = "threw"
               /\ UNCHANGED <<bFetched, bRequests, bSent, bRemote>>
          ELSE /\ bRemote' = NewForm(cleanText(bConfig.title))
               /\ IF answer = "none"
                  THEN /\ bPc' = "threw"
                       /\ UNCHANGED <<bFetched, bRequests, bSent>>
                  ELSE /\ bFetched' = <<"formId">>
                       /\ bRequests' = CreateRequests(bConfig)
                       /\ bSent' = IF Len(bRequests') > 0
                                   THEN Append(bSent, "forms.batchUpdate")
                                   ELSE bSent
                       /\ bPc' = IF Len(bRequests') > 0 THEN "forms.batchUpdate"
                                 ELSE "returned"
    /\ UNCHANGED <<bOp, bConfig, bOptions, bApiOptions>>
    /\ UNCHANGED <<numberingVars, loopVars, callsVars, genVars, clientVars>>

\* the batchUpdate is answered: the remote form has taken all the requests
\* and the method returns, or it has taken none and the method throws
BatchUpdateAnswered ==
    /\ bPc = "forms.batchUpdate"
    /\ \E ok \in BOOLEAN :
          LET applied == ApplyAll(bRemote, bRequests)
          IN  IF ok /\ applied.ok
              THEN /\ bRemote' = applied.form
                   /\ bPc' = "returned"
              ELSE /\ bPc' = "threw"
                   /\ UNCHANGED bRemote
    /\ UNCHANGED <<bOp, bConfig, bOptions, bApiOptions, bFetched, bRequests, bSent>>
    /\ UNCHANGED <<numberingVars, loopVars, callsVars, genVars, clientVars>>

\* while updateForm awaits its batchUpdate, the owner deletes the last item
\* of the form in the editor
OwnerDeletesItem ==
    /\ bOp = "updateForm" /\ bPc = "forms.batchUpdate"
    /\ bRemote.items # <<>>
    /\ bRemote' = [bRemote EXCEPT !.items = SubSeq(@, 1, Len(@) - 1)]
    /\ UNCHANGED <<bOp, bPc, bConfig, bOptions, bApiOptions, bFetched, bRequests,
                   bSent>>
    /\ UNCHANGED <<numberingVars, loopVars, callsVars, genVars, clientVars>>

BatchNext ==
    \/ BuildChoiceOptions
    \/ UpdateFormCalled
    \/ UpdateFormFetched
    \/ CreateFormCalled
    \/ CreateFormCreated
    \/ BatchUpdateAnswered
    \/ OwnerDeletesItem

SpecBatch == BatchInit /\ [][BatchNext]_vars

(***************************************************************************)
(* Vocabulary of the properties                                            *)
(***************************************************************************)
Returned == pc # "ready"

\* the grammar of an already-numbered title, read at position j of t
SectionLower == <<"s", "e", "c", "t", "i", "o", "n">>
SectionUpper == <<"S", "E", "C", "T", "I", "O", "N">>

\* kw at position j in any letter case, n >= 1 whitespace characters, a digit
KeywordFormAt(t, j, lower, upper) ==
    /\ j + Len(lower) - 1 <= Len(t)
    /\ \A i \in 1..Len(lower) : t[j + i - 1] \in {lower[i], upper[i]}
    /\ \E n \in 1..Len(t) :
          /\ j + Len(lower) + n <= Len(t)
          /\ \A i \in 1..n : IsSpace(t[j + Len(lower) + i - 1])
          /\ IsDigit(t[j + Len(lower) + n])

\* n >= 1 digits at position j, then "." or ")", then a whitespace character
OrdinalFormAt(t, j) ==
    \E n \in 1..Len(t) :
        /\ j + n + 1 <= Len(t)
        /\ \A i \in 1..n : IsDigit(t[j + i - 1])
        /\ t[j + n] \in {".", ")"}
        /\ IsSpace(t[j + n + 1])

NumberedFormAt(t, j) ==
    \/ KeywordFormAt(t, j, SectionLower, SectionUpper)
    \/ KeywordFormAt(t, j, <<"q">>, <<"Q">>)
    \/ OrdinalFormAt(t, j)

\* the numbering pattern first occurs after the start of the title
NumberedMidText(t) ==
    /\ ~NumberedFormAt(t, 1)
    /\ \E j \in 2..Len(t) : NumberedFormAt(t, j)

\* the number a string of decimal digits denotes
DigitValue(c) == (CHOOSE i \in 1..Len(DigitChars) : DigitChars[i] = c) - 1
RECURSIVE DecimalValue(_)
DecimalValue(d) ==
    IF d = <<>> THEN 0
    ELSE Len(DigitChars) * DecimalValue(SubSeq(d, 1, Len(d) - 1)) + DigitValue(d[Len(d)])

\* d is the decimal numeral of n, without leading zeros
IsNumeral(d, n) ==
    /\ Len(d) >= 1
    /\ \A i \in 1..Len(d) : IsDigit(d[i])
    /\ Len(d) > 1 => d[1] # "0"
    /\ DecimalValue(d) = n

\* titles and prefixes as the tests write them
TQ1x == <<"Q", "1", " ", "x">>
TSection1 == <<"S", "e", "c", "t", "i", "o", "n", "1">>
T1Foo == <<"1", ".", "F", "o", "o">>
T1SpaceFoo == <<"1", " ", "F", "o", "o">>
PQ1 == <<"Q", " ", "1", " ", EmDash, " ">>
PSection1 == <<"S", "e", "c", "t", "i", "o", "n", " ", "1", " ", EmDash, " ">>

(***************************************************************************)
(* C1 .. C4: numberTitle and the already-numbered detector                 *)
(***************************************************************************)

\* C1: whatever the prefix, numberTitle returns a title the detector accepts
\* unchanged, and the numeral of the title is not compared with the one of
\* the prefix: "Section 2 - Old" stays under the prefix of section 1 (as an
\* argument of numberTitle and as the raw title of the first section), and
\* "1. First question" stays under the prefix "Q 1 - ".
C1_NumberedTitleUnchanged ==
    /\ (pc = "done" /\ call = "numberTitle" /\ ALREADY_NUMBERED_RE(title))
          => result = title
    /\ (pc = "done" /\ call = "numberTitle" /\ title = TSectionOld)
          => result = TSectionOld
    /\ (pc = "done" /\ call = "numberTitle" /\ title = TFirstQuestion)
          => result = TFirstQuestion
    /\ (Returned /\ call = "numberSections")
          => \A k \in 1..Len(sections) :
                 sections[k].title = TSectionOld
                     => numbered[k].sectionTitle = TSectionOld

C1_Witness ==
    /\ pc = "done" /\ call = "numberTitle"
    /\ prefix = PSection1
    /\ title = TSectionOld
    /\ result = TSectionOld

\* C2: for a title the detector rejects, the empty title included,
\* numberTitle returns the prefix followed by the title and nothing else.
C2_PlainTitlePrefixed ==
    (pc = "done" /\ call = "numberTitle" /\ ~ALREADY_NUMBERED_RE(title))
        => /\ Len(result) = Len(prefix) + Len(title)
           /\ SubSeq(result, 1, Len(prefix)) = prefix
           /\ SubSeq(result, Len(prefix) + 1, Len(result)) = title

C2_Witness ==
    /\ pc = "done" /\ call = "numberTitle"
    /\ prefix = PQ1
    /\ title = <<" ", "x", " ">>
    /\ result = PQ1 \o <<" ", "x", " ">>

\* C3: the detector returns true exactly for the titles that start with
\* "Section" or "Q" in any letter case, whitespace and a digit, or with
\* digits, "." or ")" and a whitespace character; "Q1 x", "Section1",
\* "1.Foo" and "1 Foo" are not detected.
C3_DetectorGrammar ==
    (pc = "done" /\ call = "test")
        => /\ matched <=> NumberedFormAt(title, 1)
           /\ title \in {TQ1x, TSection1, T1Foo, T1SpaceFoo} => ~matched

C3_Witness ==
    /\ pc = "done" /\ call = "test"
    /\ title = <<"q", "\t", "1">>
    /\ matched

\* C4: a title in which the numbering pattern first occurs after the start
\* is not detected, and numberTitle prefixes it.
C4_AnchoredAtStart ==
    /\ (pc = "done" /\ call = "test" /\ NumberedMidText(title)) => ~matched
    /\ (pc = "done" /\ call = "numberTitle" /\ NumberedMidText(title))
          => result = prefix \o title

C4_Witness ==
    /\ pc = "done" /\ call = "numberTitle"
    /\ prefix = PQ1
    /\ title = THowMany
    /\ NumberedMidText(title)
    /\ result = PQ1 \o THowMany

(***************************************************************************)
(* C5 .. C10: numberSections and numberFlatQuestions                       *)
(***************************************************************************)
EndsWith(t, suffix) ==
    /\ Len(t) >= Len(suffix)
    /\ SubSeq(t, Len(t) - Len(suffix) + 1, Len(t)) = suffix

\* the number of questions before position p whose type is not "title"
PrecedingNonTitle(qs, p) == Cardinality({j \in 1..(p - 1) : qs[j].type # "title"})

\* out is "Section ", the numeral of i, " - " and raw
SectionTitleForm(out, i, raw) ==
    \E a \in 1..Len(out) :
        /\ Len(out) = 8 + a + 3 + Len(raw)
        /\ SubSeq(out, 1, 8) = <<"S", "e", "c", "t", "i", "o", "n", " ">>
        /\ IsNumeral(SubSeq(out, 9, 8 + a), i)
        /\ SubSeq(out, 9 + a, 11 + a) = <<" ", EmDash, " ">>
        /\ SubSeq(out, 12 + a, Len(out)) = raw

\* out is "Q ", the numeral of i, ".", the numeral of k, " - " and raw
SectionQuestionForm(out, i, k, raw) ==
    \E a \in 1..Len(out), b \in 1..Len(out) :
        /\ Len(out) = 2 + a + 1 + b + 3 + Len(raw)
        /\ SubSeq(out, 1, 2) = <<"Q", " ">>
        /\ IsNumeral(SubSeq(out, 3, 2 + a), i)
        /\ out[3 + a] = "."
        /\ IsNumeral(SubSeq(out, 4 + a, 3 + a + b), k)
        /\ SubSeq(out, 4 + a + b, 6 + a + b) = <<" ", EmDash, " ">>
        /\ SubSeq(out, 7 + a + b, Len(out)) = raw

\* out is "Q ", the numeral of k, " - " and raw
FlatQuestionForm(out, k, raw) ==
    \E b \in 1..Len(out) :
        /\ Len(out) = 2 + b + 3 + Len(raw)
        /\ SubSeq(out, 1, 2) = <<"Q", " ">>
        /\ IsNumeral(SubSeq(out, 3, 2 + b), k)
        /\ SubSeq(out, 3 + b, 5 + b) = <<" ", EmDash, " ">>
        /\ SubSeq(out, 6 + b, Len(out)) = raw

\* one output per question, the output at p ending with the title at p
Parallel(qs, out) ==
    /\ Len(out) = Len(qs)
    /\ \A p \in 1..Len(qs) : EndsWith(out[p], qs[p].title)

\* the questions that are not title items, and the outputs at their positions
NonTitle(qs) == SelectSeq(qs, LAMBDA q : q.type # "title")
RECURSIVE OutputsOfNonTitle(_, _)
OutputsOfNonTitle(qs, out) ==
    IF qs = <<>> THEN <<>>
    ELSE (IF Head(qs).type = "title" THEN <<>> ELSE <<Head(out)>>)
             \o OutputsOfNonTitle(Tail(qs), Tail(out))

\* title items are returned raw, and removing them changes no other output
TitleItemsInert(qs, out, sectionIndex) ==
    /\ Len(out) = Len(qs)
    /\ \A p \in 1..Len(qs) : qs[p].type = "title" => out[p] = qs[p].title
    /\ OutputsOfNonTitle(qs, out) = numberQuestions(NonTitle(qs), sectionIndex)
    /\ (\A p \in 1..Len(qs) : qs[p].type = "title")
          => out = [p \in 1..Len(qs) |-> qs[p].title]

Q11YourName ==
    <<"Q", " ", "1", ".", "1", " ", EmDash, " ">> \o TYourName
Q12YourName ==
    <<"Q", " ", "1", ".", "2", " ", EmDash, " ">> \o TYourName
Q21YourName ==
    <<"Q", " ", "2", ".", "1", " ", EmDash, " ">> \o TYourName
Q2YourName ==
    <<"Q", " ", "2", " ", EmDash, " ">> \o TYourName
Q10YourName ==
    <<"Q", " ", "1", "0", " ", EmDash, " ">> \o TYourName
Section2Team ==
    <<"S", "e", "c", "t", "i", "o", "n", " ", "2", " ", EmDash, " ">> \o TTeam

\* C5: numberSections returns one entry per section, in the order of the
\* input, and the entry at 1-based position i carries the raw title when it
\* is already numbered and "Section i - " followed by the raw title otherwise.
C5_OneEntryPerSection ==
    (Returned /\ call = "numberSections")
        => /\ Len(numbered) = Len(sections)
           /\ \A k \in 1..Len(sections) :
                 IF ALREADY_NUMBERED_RE(sections[k].title)
                 THEN numbered[k].sectionTitle = sections[k].title
                 ELSE SectionTitleForm(numbered[k].sectionTitle, k, sections[k].title)

C5_Witness ==
    /\ pc = "done" /\ call = "numberSections"
    /\ Len(sections) = 2
    /\ sections[1].title = TSectionOld
    /\ sections[2].title = TTeam
    /\ numbered[1].sectionTitle = TSectionOld
    /\ numbered[2].sectionTitle = Section2Team

\* C6: in every section, and for numberFlatQuestions, there are as many
\* question titles in the result as questions in the input, and the one at
\* position p is made from the question at position p.
C6_QuestionsParallel ==
    /\ (Returned /\ call = "numberSections")
          => \A k \in 1..Len(sections) :
                 Parallel(sections[k].questions, numbered[k].questions)
    /\ (Returned /\ call = "numberFlatQuestions") => Parallel(questions, flat)

C6_Witness ==
    /\ pc = "done" /\ call = "numberFlatQuestions"
    /\ questions = << [type |-> "title", title |-> TFirstQuestion],
                      [type |-> "text", title |-> TExisting],
                      [type |-> "text", title |-> TYourName] >>
    /\ flat = <<TFirstQuestion, TExisting, Q2YourName>>

\* C7: in the section at 1-based position i, a question that is not a title
\* item and is not already numbered becomes "Q i.k - " followed by its raw
\* title, k being one more than the number of non-title questions before it
\* in that section.
C7_SectionQuestionNumbers ==
    (Returned /\ call = "numberSections")
        => \A k \in 1..Len(sections) :
              /\ Len(numbered[k].questions) = Len(sections[k].questions)
              /\ \A p \in 1..Len(sections[k].questions) :
                    LET q == sections[k].questions[p]
                    IN  (q.type # "title" /\ ~ALREADY_NUMBERED_RE(q.title))
                            => SectionQuestionForm(
                                   numbered[k].questions[p], k,
                                   1 + PrecedingNonTitle(sections[k].questions, p),
                                   q.title)

C7_Witness ==
    /\ pc = "done" /\ call = "numberSections"
    /\ Len(sections) = 2
    /\ numbered[1].questions = <<Q11YourName, Q12YourName>>
    /\ numbered[2].questions = <<Q21YourName>>

\* C8: a title item is returned with its raw title, numbered or not, and
\* uses up no number: the outputs of the other questions are those of the
\* list with the title items removed; a list of title items only is
\* returned raw.
C8_TitleItemsInert ==
    /\ (Returned /\ call = "numberSections")
          => \A k \in 1..Len(sections) :
                 TitleItemsInert(sections[k].questions, numbered[k].questions, <<k>>)
    /\ (Returned /\ call = "numberFlatQuestions")
          => TitleItemsInert(questions, flat, Undefined)

C8_Witness ==
    /\ pc = "done" /\ call = "numberSections"
    /\ Len(sections) = 1
    /\ sections[1].questions = << [type |-> "title", title |-> TSubHeader],
                                  [type |-> "text", title |-> TYourName] >>
    /\ numbered[1].questions = <<TSubHeader, Q11YourName>>

\* C9: numberFlatQuestions numbers without a section index: a question that
\* is not a title item and is not already numbered becomes "Q k - " followed
\* by its raw title, k counting the non-title questions from 1, and the
\* empty list gives the empty list.
C9_FlatQuestionNumbers ==
    (Returned /\ call = "numberFlatQuestions")
        => /\ Len(flat) = Len(questions)
           /\ questions = <<>> => flat = <<>>
           /\ \A p \in 1..Len(questions) :
                 (questions[p].type # "title" /\ ~ALREADY_NUMBERED_RE(questions[p].title))
                     => FlatQuestionForm(flat[p], 1 + PrecedingNonTitle(questions, p),
                                         questions[p].title)

C9_Witness ==
    /\ pc = "done" /\ call = "numberFlatQuestions"
    /\ Len(questions) = 10
    /\ \A p \in 1..Len(questions) : questions[p] = [type |-> "text", title |-> TYourName]
    /\ flat[10] = Q10YourName

\* C10: numberSections run on the sections rebuilt from its own result
\* (computed titles, types kept) returns the same section titles and the
\* same question titles.
C10_Idempotent ==
    pc = "again"
        => /\ Len(renumbered) = Len(numbered)
           /\ \A k \in 1..Len(numbered) :
                 /\ renumbered[k].sectionTitle = numbered[k].sectionTitle
                 /\ renumbered[k].questions = numbered[k].questions

C10_Witness ==
    /\ pc = "again"
    /\ Len(sections) = 2
    /\ numbered[2].sectionTitle = Section2Team
    /\ numbered[1].questions = <<TSubHeader, Q11YourName>>
    /\ numbered[2].questions = <<Q21YourName>>
    /\ renumbered = numbered

(***************************************************************************)
(* C11, C12: already-numbered titles inside numberSections                 *)
(***************************************************************************)
\* position p2 holds the first question after p that is not a title item
NextNonTitle(qs, p, p2) ==
    /\ p2 > p
    /\ qs[p2].type # "title"
    /\ \A j \in (p + 1)..(p2 - 1) : qs[j].type = "title"

\* C11: a question that is not a title item and is already numbered is
\* returned unchanged and still uses up a number: the next non-title
\* question of the list, when it is not numbered yet, gets the number that
\* follows ("Q 1.2 - " after an already-numbered first question).
C11_NumberedQuestionCounts ==
    /\ (Returned /\ call = "numberSections")
          => \A k \in 1..Len(sections) :
                LET qs == sections[k].questions
                    out == numbered[k].questions
                IN  \A p \in 1..Len(qs) :
                       (qs[p].type # "title" /\ ALREADY_NUMBERED_RE(qs[p].title))
                           => /\ out[p] = qs[p].title
                              /\ \A p2 \in 1..Len(qs) :
                                    (NextNonTitle(qs, p, p2)
                                         /\ ~ALREADY_NUMBERED_RE(qs[p2].title))
                                        => SectionQuestionForm(
                                               out[p2], k,
                                               PrecedingNonTitle(qs, p) + 2,
                                               qs[p2].title)
    /\ (Returned /\ call = "numberFlatQuestions")
          => \A p \in 1..Len(questions) :
                (questions[p].type # "title" /\ ALREADY_NUMBERED_RE(questions[p].title))
                    => /\ flat[p] = questions[p].title
                       /\ \A p2 \in 1..Len(questions) :
                             (NextNonTitle(questions, p, p2)
                                  /\ ~ALREADY_NUMBERED_RE(questions[p2].title))
                                 => FlatQuestionForm(
                                        flat[p2], PrecedingNonTitle(questions, p) + 2,
                                        questions[p2].title)

C11_Witness ==
    /\ pc = "done" /\ call = "numberSections"
    /\ Len(sections) = 1
    /\ sections[1].questions = << [type |-> "text", title |-> TExisting],
                                  [type |-> "text", title |-> TYourName] >>
    /\ numbered[1].questions = <<TExisting, Q12YourName>>

\* C12: the title of a section and the titles of its questions are tested
\* separately: under a raw section title that is already numbered and kept,
\* the questions are numbered with the 1-based position of the section, not
\* with the numeral of the title; and a section title that is not numbered
\* is prefixed even when one of its questions is already numbered.
C12_SectionAndQuestionsIndependent ==
    (Returned /\ call = "numberSections")
        => \A k \in 1..Len(sections) :
              LET qs == sections[k].questions
                  out == numbered[k].questions
              IN  /\ ALREADY_NUMBERED_RE(sections[k].title)
                        => /\ numbered[k].sectionTitle = sections[k].title
                           /\ Len(out) = Len(qs)
                           /\ \A p \in 1..Len(qs) :
                                 (qs[p].type # "title"
                                      /\ ~ALREADY_NUMBERED_RE(qs[p].title))
                                     => SectionQuestionForm(
                                            out[p], k, 1 + PrecedingNonTitle(qs, p),
                                            qs[p].title)
                  /\ ~ALREADY_NUMBERED_RE(sections[k].title)
                        => SectionTitleForm(numbered[k].sectionTitle, k,
                                            sections[k].title)

C12_Witness ==
    /\ pc = "done" /\ call = "numberSections"
    /\ Len(sections) = 2
    /\ sections[1] = [title |-> TSectionOld,
                      questions |-> <<[type |-> "text", title |-> TYourName]>>]
    /\ sections[2] = [title |-> TTeam,
                      questions |-> <<[type |-> "text", title |-> TExisting]>>]
    /\ numbered[1] = [sectionTitle |-> TSectionOld, questions |-> <<Q11YourName>>]
    /\ numbered[2] = [sectionTitle |-> Section2Team, questions |-> <<TExisting>>]

(***************************************************************************)
(* C13: the indices while the maps run                                     *)
(***************************************************************************)
\* the non-title items among the first n of qs
NonTitleAmong(qs, n) == Cardinality({p \in 1..n : qs[p].type # "title"})

\* C13: while numbering runs, the section numbers taken so far are 1, 2, 3, ...
\* in this order, and the counter values given to the non-title questions of
\* each section are 1, 2, 3, ... in this order, one for every non-title
\* question handled: no value is given twice within a section and none is
\* skipped, and the counter stands at one more than the values given.
C13_IndicesCountUp ==
    /\ \A k \in 1..Len(sectionNums) : sectionNums[k] = k
    /\ \A k \in 1..Len(counters) :
          \A j \in 1..Len(counters[k]) : counters[k][j] = j
    /\ call = "numberSections"
          => /\ Len(sectionNums) = Len(counters)
             /\ \A k \in 1..secDone :
                   Len(counters[k]) =
                       NonTitleAmong(sections[k].questions,
                                     Len(sections[k].questions))
    /\ loopPc = "questions"
          => /\ Len(counters[Len(counters)]) = NonTitleAmong(CurQuestions, qDone)
             /\ curQuestionIndex = 1 + Len(counters[Len(counters)])
             /\ call = "numberSections" => curSectionNum = secDone + 1

C13_Witness ==
    /\ loopPc = "returned" /\ call = "numberSections"
    /\ Len(sections) = 2
    /\ sections[1].questions = << [type |-> "text", title |-> TExisting],
                                  [type |-> "text", title |-> TYourName] >>
    /\ sectionNums = <<1, 2>>
    /\ counters = << <<1, 2>>, <<1>> >>

(***************************************************************************)
(* C14, C15: arguments kept, every call returns                            *)
(***************************************************************************)
\* C14: no step of numberTitle, numberSections or numberFlatQuestions changes
\* an argument: the prefix, the title, the sections (their titles, their
\* questions' titles and types, order and length) and the flat questions are
\* after the call what they were before it.
C14_InputsUnchanged ==
    [][ /\ prefix' = prefix
        /\ title' = title
        /\ Len(sections') = Len(sections)
        /\ \A k \in 1..Len(sections) :
              /\ sections'[k].title = sections[k].title
              /\ sections'[k].questions = sections[k].questions
        /\ questions' = questions ]_vars

C14_Witness ==
    /\ pc = "done" /\ call = "numberSections"
    /\ Len(sections) = 2
    /\ sections[1].title = TTeam
    /\ sections[1].questions = <<[type |-> "text", title |-> TYourName]>>
    /\ numbered[1].sectionTitle # sections[1].title
    /\ numbered[1].questions[1] # sections[1].questions[1].title

\* a value of type string
IsStringValue(s) == \A p \in 1..Len(s) : s[p] \in STRING

\* C15: every call of numberTitle, numberSections and numberFlatQuestions
\* returns: a call that is ready can always be made, no call ends in an
\* error state, and what it returns is a string, one record per section
\* holding a string and a list of strings, or a list of strings, also for an
\* empty title, an empty prefix and empty lists.
C15_Total ==
    /\ pc \in {"ready", "done", "again"}
    /\ pc = "ready" => ENABLED Next
    /\ (Returned /\ call = "numberTitle") => IsStringValue(result)
    /\ (Returned /\ call = "numberSections")
          => /\ Len(numbered) = Len(sections)
             /\ \A k \in 1..Len(numbered) :
                   /\ IsStringValue(numbered[k].sectionTitle)
                   /\ \A p \in 1..Len(numbered[k].questions) :
                         IsStringValue(numbered[k].questions[p])
    /\ (Returned /\ call = "numberFlatQuestions")
          => /\ Len(flat) = Len(questions)
             /\ \A p \in 1..Len(flat) : IsStringValue(flat[p])

C15_Witness ==
    /\ pc = "done" /\ call = "numberFlatQuestions"
    /\ questions = <<>>
    /\ flat = <<>>

(***************************************************************************)
(* C16: calls one after another                                            *)
(***************************************************************************)
\* C16: of the calls made one after another, in any order, two calls of the
\* same operation with equal arguments have returned equal values, each
\* value is the one the operation gives when called alone, and the shared
\* pattern's position state is the same before every test.
C16_Deterministic ==
    /\ lastIndex = 0
    /\ \A a, b \in 1..Len(history) :
          (history[a].op = history[b].op /\ history[a].args = history[b].args)
              => history[a].value = history[b].value
    /\ \A a \in 1..Len(history) :
          /\ history[a].op = "numberTitle"
                => history[a].value =
                       numberTitle(history[a].args[1], history[a].args[2])
          /\ history[a].op = "numberSections"
                => history[a].value = numberSections(history[a].args[1])
          /\ history[a].op = "numberFlatQuestions"
                => history[a].value = numberFlatQuestions(history[a].args[1])

C16_Witness ==
    /\ Len(history) = 3
    /\ history[1].op = "numberTitle"
    /\ history[1].args[2] = TExisting
    /\ history[1].value = TExisting
    /\ history[2].op = "numberSections"
    /\ history[3] = history[1]

(***************************************************************************)
(* C17 .. C20: the generate flow                                           *)
(***************************************************************************)
\* the run has printed or called ev
InTrace(ev) == \E n \in 1..Len(trace) : trace[n] = ev

\* the run updates a form on which it has counted n or more responses
CountedAtLeast(n) ==
    /\ optFormId
    /\ responseCount # NotYet
    /\ responseCount[1] >= n

\* C17: a run with a form id that has counted one response or more and has no
\* force never calls updateForm and sends no batchUpdate, with or without
\* saveResponses; it is in the export or it has exited, and it exits with
\* code 1. A run that has counted zero responses has called updateForm,
\* whatever force is, and has not aborted.
C17_NoUpdateWithoutForce ==
    /\ (CountedAtLeast(1) /\ ~optForce)
          => /\ ~InTrace("updateForm")
             /\ ~InTrace("batchUpdate")
             /\ genPc \in {"exportGetForm", "exportGetResponses", "exited"}
             /\ ~optSaveResponses => genPc = "exited"
             /\ genPc = "exited" => exitCode = 1
    /\ (optFormId /\ responseCount = <<0>>)
          => /\ InTrace("updateForm")
             /\ ~InTrace("abort") /\ ~InTrace("abortSaved")
             /\ genPc \in {"updateGetForm", "batchUpdate", "exited"}
             /\ (genPc = "exited" /\ exitCode = 1) => InTrace("error")

C17_Witness ==
    /\ genPc = "exited" /\ exitCode = 1
    /\ optFormId /\ optSaveResponses /\ ~optForce
    /\ responseCount = <<1>>
    /\ trace = <<"warning", "exportResponsesCsv", "exportReturned", "abortSaved">>

\* C18: a run with a form id and force that has counted one response or more
\* and has ended without an error has printed no response warning and has
\* called updateForm.
C18_ForceSkipsWarning ==
    (CountedAtLeast(1) /\ optForce /\ genPc = "exited" /\ exitCode = 0)
        => /\ ~InTrace("warning")
           /\ InTrace("updateForm")

\* C19: in a run with saveResponses that has counted one response or more,
\* the export is called at once and every updateForm comes after the return
\* of the export; a run that aborts for lack of force has its export
\* returned before; a run that has counted zero responses calls no export
\* and writes no CSV file.
C19_ExportBeforeUpdate ==
    /\ (CountedAtLeast(1) /\ optSaveResponses)
          => /\ InTrace("exportResponsesCsv")
             /\ \A n \in 1..Len(trace) :
                   trace[n] \in {"updateForm", "abort", "abortSaved"}
                       => \E m \in 1..(n - 1) : trace[m] = "exportReturned"
             /\ (~optForce /\ genPc = "exited" /\ ~InTrace("error"))
                   => /\ InTrace("exportReturned")
                      /\ trace[Len(trace)] = "abortSaved"
    /\ (optFormId /\ responseCount = <<0>>)
          => /\ ~InTrace("exportResponsesCsv")
             /\ csvRows = 0
    /\ ~optSaveResponses => ~InTrace("exportResponsesCsv")

C19_Witness ==
    /\ genPc = "exited" /\ exitCode = 0
    /\ optFormId /\ optSaveResponses /\ optForce
    /\ responseCount = <<2>>
    /\ csvRows = 2
    /\ trace = <<"warning", "exportResponsesCsv", "exportReturned",
                 "updateForm", "batchUpdate">>

\* C20: a step shows the authorization prompt only when token.json does not
\* exist; token.json is written only when it does not exist, with the token
\* just obtained, and every token obtained is written; while token.json
\* exists no step prompts or rewrites it, and an authenticate that ends then
\* has set the saved token.
C20_TokenSavedOnce ==
    [][ /\ prompts' # prompts => tokenFile = NoFile
        /\ (tokenFile' # tokenFile \/ tokenWrites' # tokenWrites)
              => /\ tokenFile = NoFile
                 /\ tokenFile' # NoFile
                 /\ tokenFile' = clientToken'
                 /\ tokenWrites' = tokenWrites + 1
        /\ (genPc = "exchanging" /\ genPc' = "authenticated")
              => tokenFile' = clientToken' /\ tokenFile' # NoFile
        /\ (tokenFile # NoFile /\ genPc = "authenticate" /\ genPc' # genPc
                 /\ credentialsFile)
              => /\ genPc' = "authenticated"
                 /\ clientToken' = tokenFile ]_vars

C20_Witness ==
    /\ runs = 2
    /\ genPc = "authenticated"
    /\ prompts = 1 /\ tokenWrites = 1
    /\ tokenFile = <<1>>
    /\ clientToken = tokenFile

(***************************************************************************)
(* C21: calls on a generator that is not authenticated                     *)
(***************************************************************************)
\* C21: while no authenticate() has returned on the generator, every call of
\* a method other than authenticate throws "Not authenticated. Call
\* authenticate() first." at once: no request is sent and none is
\* outstanding after the call; and an authenticate() that fails, for a
\* missing credentials.json or a rejected token request, leaves the
\* generator with neither this.forms nor this.drive set.
C21_UnauthenticatedCallsRefused ==
    [][ /\ (/\ Len(cLog') = Len(cLog) + 1
            /\ ~cAuthDone
            /\ cLog'[Len(cLog')].method # "authenticate")
              => /\ cLog'[Len(cLog')].error = NotAuthenticated
                 /\ cError' = NotAuthenticated
                 /\ cSent' = cSent
                 /\ cInFlight' = <<>>
                 /\ cMethod' = "none"
        /\ (~cAuthDone /\ cError' \in {CredentialsNotFound, "request failed"})
              => ~cAuthDone'
        /\ ~cAuthDone' => (~cForms' /\ ~cDrive') ]_vars

C21_Witness ==
    /\ cScript = "direct"
    /\ cLog = << [method |-> "authenticate", error |-> CredentialsNotFound],
                 [method |-> "exportResponsesCsv", error |-> NotAuthenticated],
                 [method |-> "deleteForm", error |-> NotAuthenticated] >>
    /\ cSent = 0
    /\ ~cForms /\ ~cDrive

(***************************************************************************)
(* C22 .. C25: the request batches and the choice options                  *)
(***************************************************************************)
\* the items the configuration asks for: items when given, else questions
ConfiguredItems ==
    IF bConfig.items.defined THEN bConfig.items.value
    ELSE IF bConfig.questions.defined THEN bConfig.questions.value
    ELSE <<>>

\* the form getForm returned, as the batch of updateForm was built for it
FetchedForm == [bRemote EXCEPT !.items = bFetched]

\* that form after the first j requests of the batch
FetchedAfter(j) == ApplyAll(FetchedForm, SubSeq(bRequests, 1, j))

\* the batch of updateForm has been built
UpdateBatchBuilt == bOp = "updateForm" /\ bRequests # <<>>

\* how many times request name was sent
TimesSent(name) == Cardinality({k \in 1..Len(bSent) : bSent[k] = name})

\* C22: the batch updateForm builds for a fetched form of n items and a
\* configuration of m items is: deleteItem at n-1, ..., 0, then the info
\* update, then the settings update, then createItem at 0, ..., m-1. Taken in
\* this order by the fetched form, every deleteItem finds its index inside
\* the item list of that moment, after the n deletes no item is left, and
\* after the whole batch the items are the m configured items in their order.
C22_UpdateBatchApplies ==
    UpdateBatchBuilt
        => LET n == Len(bFetched)
               m == Len(ConfiguredItems)
           IN  /\ Len(bRequests) = n + 2 + m
               /\ \A k \in 1..n :
                     /\ bRequests[k].kind = "deleteItem"
                     /\ bRequests[k].index = n - k
                     /\ FetchedAfter(k - 1).ok
                     /\ bRequests[k].index < Len(FetchedAfter(k - 1).form.items)
               /\ FetchedAfter(n).ok
               /\ FetchedAfter(n).form.items = <<>>
               /\ bRequests[n + 1].kind = "updateFormInfo"
               /\ bRequests[n + 2].kind = "updateSettings"
               /\ \A k \in 1..m :
                     /\ bRequests[n + 2 + k].kind = "createItem"
                     /\ bRequests[n + 2 + k].index = k - 1
               /\ FetchedAfter(n + 2 + m).ok
               /\ FetchedAfter(n + 2 + m).form.items =
                      [k \in 1..m |-> buildItem(ConfiguredItems[k])]

C22_Witness ==
    /\ bOp = "updateForm" /\ bPc = "returned"
    /\ Len(bFetched) = 2
    /\ bRequests[1].index = 1 /\ bRequests[2].index = 0
    /\ bConfig.items = Given(<< [type |-> "title", title |-> <<"C">>],
                                [type |-> "text", title |-> <<"A">>] >>)
    /\ bRemote.items = << [title |-> <<"C">>, kind |-> "textItem"],
                          [title |-> <<"A">>, kind |-> "questionItem"] >>

\* C23: updateForm never sends more than one batchUpdate and has sent exactly
\* one once the form was fetched and when it returns; after it has returned,
\* the title is the cleaned configured title, the description is the cleaned
\* configured description or empty when there is none, and the email type is
\* VERIFIED for 'verified', RESPONDER_INPUT for 'input', DO_NOT_COLLECT
\* otherwise: nothing of the former title, description or email type stays.
C23_UpdateOverwritesInfo ==
    bOp = "updateForm"
        => /\ TimesSent("forms.batchUpdate") <= 1
           /\ (bPc \in {"forms.batchUpdate", "returned"} \/ UpdateBatchBuilt)
                 => TimesSent("forms.batchUpdate") = 1
           /\ bPc = "returned"
                 => /\ bRemote.title = cleanText(bConfig.title)
                    /\ bRemote.title # OldForm(0, "VERIFIED").title
                    /\ bRemote.description =
                           (IF bConfig.description.defined
                            THEN cleanText(bConfig.description.value)
                            ELSE <<>>)
                    /\ bRemote.description # OldForm(0, "VERIFIED").description
                    /\ bConfig.collectEmail = "verified"
                          => bRemote.emailType = "VERIFIED"
                    /\ bConfig.collectEmail = "input"
                          => bRemote.emailType = "RESPONDER_INPUT"
                    /\ bConfig.collectEmail \notin {"verified", "input"}
                          => bRemote.emailType = "DO_NOT_COLLECT"

C23_Witness ==
    /\ bOp = "updateForm" /\ bPc = "returned"
    /\ bSent = <<"forms.get", "forms.batchUpdate">>
    /\ bConfig.title = <<"F", CR, LF, LF, "G", " ", " ", "H">>
    /\ bConfig.description = NotGiven
    /\ bConfig.collectEmail = "none"
    /\ bRemote.title = <<"F", LF, LF, "G", " ", "H">>
    /\ bRemote.description = <<>>
    /\ bRemote.emailType = "DO_NOT_COLLECT"

\* C24: createForm sends forms.create first and a batchUpdate only after an
\* answer with a form id; without an id it throws with no batchUpdate sent.
\* The batch holds the description update if a description is given, then
\* the email setting if collectEmail is 'verified' or 'input', then one
\* createItem per configured item at its 0-based position, items being taken
\* before questions; with none of them no batchUpdate is sent; and the form
\* created has the configured items in their order.
C24_CreateThenBatch ==
    bOp = "createForm"
        => LET d == IF TruthyText(bConfig.description) THEN 1 ELSE 0
               e == IF bConfig.collectEmail \in {"verified", "input"} THEN 1 ELSE 0
               m == Len(ConfiguredItems)
           IN  /\ bSent \in {<<>>, <<"forms.create">>,
                             <<"forms.create", "forms.batchUpdate">>}
               /\ TimesSent("forms.batchUpdate") = 1 => bFetched = <<"formId">>
               /\ (bPc = "threw" /\ bFetched = <<>>) => bSent = <<"forms.create">>
               /\ bFetched = <<"formId">>
                     => /\ Len(bRequests) = d + e + m
                        /\ d = 1
                              => /\ bRequests[1].kind = "updateFormInfo"
                                 /\ bRequests[1].mask = {"description"}
                                 /\ bRequests[1].description =
                                        cleanText(bConfig.description.value)
                        /\ e = 1
                              => /\ bRequests[d + 1].kind = "updateSettings"
                                 /\ bRequests[d + 1].emailType =
                                        (IF bConfig.collectEmail = "verified"
                                         THEN "VERIFIED" ELSE "RESPONDER_INPUT")
                        /\ \A k \in 1..m :
                              /\ bRequests[d + e + k].kind = "createItem"
                              /\ bRequests[d + e + k].index = k - 1
                              /\ bRequests[d + e + k].item =
                                     buildItem(ConfiguredItems[k])
                        /\ (d + e + m = 0) <=> TimesSent("forms.batchUpdate") = 0
               /\ bPc = "returned"
                     => bRemote.items = [k \in 1..m |-> buildItem(ConfiguredItems[k])]

C24_Witness ==
    /\ bOp = "createForm" /\ bPc = "returned"
    /\ bSent = <<"forms.create", "forms.batchUpdate">>
    /\ bConfig.description = Given(<<"d", LF, "e", " ">>)
    /\ bConfig.collectEmail = "input"
    /\ bConfig.items = Given(<< [type |-> "pageBreak", title |-> <<"B", " ", " ", "b">>],
                                [type |-> "text", title |-> <<"A">>] >>)
    /\ bConfig.questions = Given(<<[type |-> "text", title |-> <<"Q">>]>>)
    /\ Len(bRequests) = 4
    /\ bRemote.description = <<"d", " ", "e">>
    /\ bRemote.emailType = "RESPONDER_INPUT"
    /\ bRemote.items = << [title |-> <<"B", " ", "b">>, kind |-> "pageBreakItem"],
                          [title |-> <<"A">>, kind |-> "questionItem"] >>

\* an input option that is an "Other" option
IsOtherOption(opt) == opt.kind = "object" /\ opt.isOther = "true"

\* the input options that are not "Other" options, in the order given
RegularOptions == SelectSeq(bOptions, LAMBDA opt : ~IsOtherOption(opt))

\* C25: buildChoiceOptions returns as many options as it was given: first,
\* for the regular options in the order given, an option holding just the
\* value, the same for a string and for an object with that text; then, for
\* every "Other" option, an option holding just isOther and no value.
C25_OthersLast ==
    (bOp = "buildChoiceOptions" /\ bPc = "returned")
        => /\ Len(bApiOptions) = Len(bOptions)
           /\ \A k \in 1..Len(bApiOptions) :
                 IF k <= Len(RegularOptions)
                 THEN /\ DOMAIN bApiOptions[k] = {"value"}
                      /\ bApiOptions[k].value = RegularOptions[k].value
                 ELSE /\ DOMAIN bApiOptions[k] = {"isOther"}
                      /\ bApiOptions[k].isOther = TRUE
           /\ \A j, k \in 1..Len(RegularOptions) :
                 RegularOptions[j].value = RegularOptions[k].value
                     => bApiOptions[j] = bApiOptions[k]

C25_Witness ==
    /\ bOp = "buildChoiceOptions" /\ bPc = "returned"
    /\ bOptions = << [kind |-> "object", value |-> <<"z">>, isOther |-> "true"],
                     [kind |-> "string", value |-> <<"x">>, isOther |-> "undefined"],
                     [kind |-> "object", value |-> <<"x">>, isOther |-> "undefined"] >>
    /\ bApiOptions = << [value |-> <<"x">>], [value |-> <<"x">>], [isOther |-> TRUE] >>

(***************************************************************************)
(* C26: one request at a time                                              *)
(***************************************************************************)
\* a step of C26 in one of the four scripts
OneRequestStep ==
    /\ Len(cInFlight') <= 1
    /\ (cInFlight' # <<>>) => (cMethod' # "none")
    /\ (cSent' > cSent)
          => (cSent' = cSent + 1 /\ (cInFlight = <<>> \/ Len(cInFlight') = 1))

\* C26: in the scripts generate, delete-forms, list-forms and validate, at
\* most one request is outstanding at any moment, a request is outstanding
\* only while a method runs, and a request is sent only when none is
\* outstanding.
C26_OneRequestAtATime ==
    [][(cScript \in {"generate", "delete-forms", "list-forms", "validate"})
           => OneRequestStep]_vars

C26_Witness ==
    /\ cScript = "delete-forms"
    /\ cPlan = <<"deleteForm">>
    /\ cMethod = "deleteForm"
    /\ cInFlight = <<"drive.files.delete">>
    /\ cSent = 4
    /\ Len(cLog) = 4

====
